---- MODULE Spec2Model ----
(***************************************************************************)
(* Cost-monitoring dashboard backend: the cost controller's query engine   *)
(* (filter compilation, list / summary / trend aggregation, pagination,    *)
(* result formatting) and its create / update / delete handlers, over the  *)
(* cost_records table; the distinct-value catalog (getAvailableFilters)    *)
(* with its three concurrent store queries; the store's failures and the   *)
(* error path to the response; the authentication routes (register, login, *)
(* refresh, logout) and the mounting of the cost routes.                   *)
(*                                                                         *)
(* Representation                                                          *)
(*  - a calendar date (DATEONLY, 'YYYY-MM-DD') is a day ordinal;           *)
(*  - a money amount (DECIMAL(10,2)) is an integer number of cents;        *)
(*  - a text value that the code parses (page, limit, the SUM and COUNT    *)
(*    columns the driver returns as text) is a sequence of one-character   *)
(*    strings, and parseInt / parseFloat are computed on it;               *)
(*  - a JavaScript number is Num(n), NaN or Infinity;                      *)
(*  - an optional query parameter is a sequence of length 0 (absent) or 1; *)
(*  - a row order the SQL ORDER BY leaves open (equal sort keys) is a      *)
(*    nondeterministic choice, made anew by every query.                   *)
(***************************************************************************)
EXTENDS Integers, Sequences, FiniteSets, TLC

VARIABLES
    store,    \* the cost_records table: id -> record
    nextId,   \* the id sequence of the table (autoIncrement)
    dbUp,     \* whether the database answers (FALSE: every store call throws)
    dbCall,   \* the options of the last store call a handler issued
    req,      \* the request the last handler ran on
    resp,     \* the response sent for it, until the client has taken it
    pager,    \* a client that reads the list page by page
    flight,   \* the three queries of a getAvailableFilters request in progress
    aggRow,   \* an aggregate row as the driver hands it to the formatter
    last,     \* a client that repeats a query: its first request and answer
    authz,    \* the Authorization header of the request in req
    users,    \* the users table
    clock,    \* the server's time, in half hours, and how often it was advanced
    session,  \* a client that logs in and out: the tokens it was issued
    thrown,   \* what the handler or middleware of the request in req threw
    tasks     \* the update and delete requests being handled concurrently

vars == <<store, nextId, dbUp, dbCall, req, resp, pager,
          flight, aggRow, last, authz, users, clock, session, thrown, tasks>>

-----------------------------------------------------------------------------
(* Bounds *)

\* The store assigns at most MaxRecords ids (creates stop after that).
MaxRecords == 3

\* The clock is advanced at most MaxTicks times.
MaxTicks == 2

\* With authentication in play, the store assigns at most MaxApiRecords ids.
MaxApiRecords == 1

\* At most MaxConcurrent update and delete requests are handled at a time.
MaxConcurrent == 2

-----------------------------------------------------------------------------
(* JavaScript numbers and text *)

NaN == [t |-> "NaN", v |-> 0]

Infinity == [t |-> "Infinity", v |-> 0]

Num(n) == [t |-> "num", v |-> n]

IsNum(x) == x.t = "num"

\* a - b and a * b on JavaScript numbers (finite operands or NaN)
JsSub(a, b) == IF IsNum(a) /\ IsNum(b) THEN Num(a.v - b.v) ELSE NaN

JsMul(a, b) == IF IsNum(a) /\ IsNum(b) THEN Num(a.v * b.v) ELSE NaN

\* Math.ceil(count / limit), count a non-negative integer
CeilDiv(count, limit) ==
    IF ~IsNum(limit) THEN NaN
    ELSE IF limit.v = 0 THEN (IF count = 0 THEN NaN ELSE Infinity)
    ELSE IF limit.v > 0 THEN Num((count + limit.v - 1) \div limit.v)
    ELSE Num(-(count \div (-limit.v)))

Digits == {"0", "1", "2", "3", "4", "5", "6", "7", "8", "9"}

DigitVal(c) ==
    CASE c = "0" -> 0 [] c = "1" -> 1 [] c = "2" -> 2 [] c = "3" -> 3
      [] c = "4" -> 4 [] c = "5" -> 5 [] c = "6" -> 6 [] c = "7" -> 7
      [] c = "8" -> 8 [] c = "9" -> 9

DigitChar(d) ==
    CASE d = 0 -> "0" [] d = 1 -> "1" [] d = 2 -> "2" [] d = 3 -> "3"
      [] d = 4 -> "4" [] d = 5 -> "5" [] d = 6 -> "6" [] d = 7 -> "7"
      [] d = 8 -> "8" [] d = 9 -> "9"

RECURSIVE DigitPrefix(_)
DigitPrefix(s) ==
    IF s = <<>> \/ s[1] \notin Digits THEN <<>>
    ELSE <<s[1]>> \o DigitPrefix(Tail(s))

RECURSIVE DigitsValue(_, _)
DigitsValue(s, acc) ==
    IF s = <<>> THEN acc ELSE DigitsValue(Tail(s), acc * 10 + DigitVal(s[1]))

RECURSIVE SkipSpace(_)
SkipSpace(s) == IF s # <<>> /\ s[1] = " " THEN SkipSpace(Tail(s)) ELSE s

Unsigned(s) == IF s # <<>> /\ s[1] \in {"-", "+"} THEN Tail(s) ELSE s

IsNegative(s) == s # <<>> /\ s[1] = "-"

\* parseInt(text, 10): leading blanks, an optional sign, the longest run of
\* digits; NaN when there is no digit.
ParseInt(text) ==
    LET t  == SkipSpace(text)
        ds == DigitPrefix(Unsigned(t))
    IN  IF ds = <<>> THEN NaN
        ELSE Num(IF IsNegative(t) THEN -DigitsValue(ds, 0) ELSE DigitsValue(ds, 0))

\* The first two fraction digits, as hundredths.
Hundredths(fs) ==
    IF fs = <<>> THEN 0
    ELSE IF Len(fs) = 1 THEN 10 * DigitVal(fs[1])
    ELSE 10 * DigitVal(fs[1]) + DigitVal(fs[2])

\* parseFloat(text), in cents: an optional sign, digits, an optional '.' and
\* fraction digits; NaN when there is no digit. The amounts parsed here carry
\* two fraction digits (numeric(10,2) sums), so the value is exact in cents.
ParseFloat(text) ==
    LET t    == SkipSpace(text)
        body == Unsigned(t)
        ds   == DigitPrefix(body)
        rest == SubSeq(body, Len(ds) + 1, Len(body))
        fs   == IF rest # <<>> /\ rest[1] = "." THEN DigitPrefix(Tail(rest)) ELSE <<>>
        mag  == 100 * DigitsValue(ds, 0) + Hundredths(fs)
    IN  IF ds = <<>> /\ fs = <<>> THEN NaN
        ELSE Num(IF IsNegative(t) THEN -mag ELSE mag)

RECURSIVE NatText(_)
NatText(n) ==
    IF n < 10 THEN <<DigitChar(n)>>
    ELSE NatText(n \div 10) \o <<DigitChar(n % 10)>>

\* The text of a bigint (COUNT) as the driver hands it over.
IntText(n) == IF n < 0 THEN <<"-">> \o NatText(-n) ELSE NatText(n)

\* The text of a numeric(10,2) (SUM(cost_amount)) as the driver hands it over.
DecimalText(cents) ==
    LET mag == IF cents < 0 THEN -cents ELSE cents
        txt == NatText(mag \div 100) \o <<".">>
               \o <<DigitChar((mag % 100) \div 10), DigitChar(mag % 10)>>
    IN  IF cents < 0 THEN <<"-">> \o txt ELSE txt

\* value || '0' on a text column: null, undefined and '' give '0'.
OrZero(text) == IF text = <<>> THEN <<"0">> ELSE text

\* new Date('YYYY-MM-DD'): UTC midnight of that day, in milliseconds.
NewDate(day) == day * 86400000

-----------------------------------------------------------------------------
(* Request parameters *)

Absent == <<>>

Some(x) == <<x>>

\* serviceName / region / accountId as the query parser delivers them:
\* missing, one string, or an array of strings (a repeated parameter).
NoDim == [kind |-> "absent", vals |-> <<>>]

One(v) == [kind |-> "one", vals |-> <<v>>]

Many(vs) == [kind |-> "many", vals |-> vs]

\* JavaScript truthiness of a query parameter: undefined and '' are falsy,
\* any array is truthy.
Truthy(p) == p.kind = "many" \/ (p.kind = "one" /\ p.vals[1] # "")

DefaultPage == <<"1">>

DefaultLimit == <<"5", "0">>

NoQuery ==
    [page |-> Absent, limit |-> Absent, startDate |-> Absent, endDate |-> Absent,
     serviceName |-> NoDim, region |-> NoDim, accountId |-> NoDim]

-----------------------------------------------------------------------------
(* Filter compilation: the whereClause each handler builds *)

NoCond == [op |-> "none", vals |-> <<>>]

\* (mutation of WhereDim: an array is compared by its first value only)
WhereDimMany1(p) ==
    IF Truthy(p) THEN [op |-> "eq", vals |-> <<p.vals[1]>>] ELSE NoCond

\* if (p) { whereClause[f] = Array.isArray(p) ? { [Op.in]: p } : p }
WhereDim(p) ==
    IF Truthy(p)
    THEN IF p.kind = "many" THEN [op |-> "in", vals |-> p.vals]
         ELSE [op |-> "eq", vals |-> p.vals]
    ELSE NoCond

NoDateCond == [op |-> "none", lo |-> 0, hi |-> 0]

\* (mutation of ListDateWhere: endDate alone is taken as a lower bound)
ListDateWhereSwapped(q) ==
    IF q.startDate # Absent /\ q.endDate # Absent
    THEN [op |-> "between", lo |-> q.startDate[1], hi |-> q.endDate[1]]
    ELSE IF q.startDate # Absent
    THEN [op |-> "gte", lo |-> q.startDate[1], hi |-> 0]
    ELSE IF q.endDate # Absent
    THEN [op |-> "gte", lo |-> q.endDate[1], hi |-> 0]
    ELSE NoDateCond

\* getCostRecords: between / gte / lte / no date condition
ListDateWhere(q) ==
    IF q.startDate # Absent /\ q.endDate # Absent
    THEN [op |-> "between", lo |-> q.startDate[1], hi |-> q.endDate[1]]
    ELSE IF q.startDate # Absent
    THEN [op |-> "gte", lo |-> q.startDate[1], hi |-> 0]
    ELSE IF q.endDate # Absent
    THEN [op |-> "lte", lo |-> 0, hi |-> q.endDate[1]]
    ELSE NoDateCond

\* getCostSummaryByService and getCostTrends: a date condition only when both
\* bounds are given
BothDateWhere(q) ==
    IF q.startDate # Absent /\ q.endDate # Absent
    THEN [op |-> "between", lo |-> q.startDate[1], hi |-> q.endDate[1]]
    ELSE NoDateCond

ListWhere(q) ==
    [date |-> ListDateWhere(q), serviceName |-> WhereDim(q.serviceName),
     region |-> WhereDim(q.region), accountId |-> WhereDim(q.accountId)]

SummaryWhere(q) ==
    [date |-> BothDateWhere(q), region |-> WhereDim(q.region),
     accountId |-> WhereDim(q.accountId), serviceName |-> WhereDim(q.serviceName)]

TrendsWhere(q) ==
    [date |-> BothDateWhere(q), serviceName |-> WhereDim(q.serviceName),
     region |-> WhereDim(q.region), accountId |-> WhereDim(q.accountId)]

-----------------------------------------------------------------------------
(* The record store: the cost_records table and its queries *)

RequiredFields == {"date", "serviceName", "costAmount", "region", "accountId"}

\* SQL evaluation of one column condition
DimHolds(c, val) ==
    CASE c.op = "none" -> TRUE
      [] c.op = "eq"   -> val = c.vals[1]
      [] c.op = "in"   -> \E i \in DOMAIN c.vals : c.vals[i] = val

DateHolds(c, day) ==
    CASE c.op = "none"    -> TRUE
      [] c.op = "between" -> c.lo <= day /\ day <= c.hi
      [] c.op = "gte"     -> day >= c.lo
      [] c.op = "lte"     -> day <= c.hi

\* WHERE: the conjunction of the column conditions
Matches(r, where) ==
    /\ DateHolds(where.date, r.date)
    /\ DimHolds(where.serviceName, r.serviceName)
    /\ DimHolds(where.region, r.region)
    /\ DimHolds(where.accountId, r.accountId)

MatchingIds(where) == {i \in DOMAIN store : Matches(store[i], where)}

RowOf(i, r) ==
    [id |-> i, date |-> r.date, serviceName |-> r.serviceName,
     costAmount |-> r.costAmount, region |-> r.region, accountId |-> r.accountId]

Row(i) == RowOf(i, store[i])

RECURSIVE SumCost(_)
SumCost(S) ==
    IF S = {} THEN 0
    ELSE LET i == CHOOSE x \in S : TRUE
         IN  store[i].costAmount + SumCost(S \ {i})

\* ORDER BY date DESC: every arrangement of the ids with dates non-increasing;
\* rows of equal date come in an order the database is free to choose.
RECURSIVE DateDescOrders(_)
DateDescOrders(S) ==
    IF S = {} THEN {<<>>}
    ELSE UNION {{<<x>> \o rest : rest \in DateDescOrders(S \ {x})} :
                x \in {y \in S : \A z \in S : store[z].date <= store[y].date}}

\* GROUP BY service_name: the services of the matching rows
GroupIds(ids, svc) == {i \in ids : store[i].serviceName = svc}

\* ORDER BY SUM(cost_amount) DESC: every arrangement of the groups with totals
\* non-increasing; groups of equal total come in an order the database chooses.
RECURSIVE SumDescOrders(_, _)
SumDescOrders(G, ids) ==
    IF G = {} THEN {<<>>}
    ELSE UNION {{<<g>> \o rest : rest \in SumDescOrders(G \ {g}, ids)} :
                g \in {h \in G : \A k \in G :
                          SumCost(GroupIds(ids, k)) <= SumCost(GroupIds(ids, h))}}

\* GROUP BY date ORDER BY date ASC: the dates are distinct, the order is fixed.
RECURSIVE DateAsc(_)
DateAsc(D) ==
    IF D = {} THEN <<>>
    ELSE LET d == CHOOSE x \in D : \A y \in D : x <= y
         IN  <<d>> \o DateAsc(D \ {d})

\* LIMIT / OFFSET on an ordered result
Page(ord, limit, offset) ==
    SubSeq(ord, offset + 1, IF offset + limit < Len(ord) THEN offset + limit ELSE Len(ord))

\* every arrangement of the elements of a set
RECURSIVE Orderings(_)
Orderings(S) ==
    IF S = {} THEN {<<>>}
    ELSE UNION {{<<x>> \o rest : rest \in Orderings(S \ {x})} : x \in S}

FilterColumns == {"serviceName", "region", "accountId"}

\* (mutation of DistinctRows: the column without DISTINCT, one row a record)
EveryRow(column) ==
    {[k \in DOMAIN ord |-> store[ord[k]][column]] : ord \in Orderings(DOMAIN store)}

\* SELECT DISTINCT(column) FROM cost_records, mapped to the column's values:
\* each value of the column once, in an order the database chooses.
DistinctRows(column) == Orderings({store[i][column] : i \in DOMAIN store})

\* WHERE "id" = '<text>': the database reads the text as an integer, and
\* rejects the statement when it is none (NaN here).
PgInteger(text) ==
    IF Unsigned(text) # <<>> /\ DigitPrefix(Unsigned(text)) = Unsigned(text)
    THEN Num(IF IsNegative(text) THEN -DigitsValue(Unsigned(text), 0)
             ELSE DigitsValue(Unsigned(text), 0))
    ELSE NaN

\* findByPk(id): the ids of the records found (one or none)
FindByPk(id) == {i \in DOMAIN store : Num(i) = PgInteger(id)}

\* The database rejects a LIMIT or OFFSET that is negative or not a number.
StoreAccepts(limit, offset) ==
    IsNum(limit) /\ limit.v >= 0 /\ IsNum(offset) /\ offset.v >= 0

\* What a store call throws (the errors of the ORM): none, the database not
\* reachable or not answering in time, a statement the database rejects, a
\* required column missing from an insert, a primary key already taken.
NoError == [name |-> "none", message |-> "", errors |-> {}]

ConnectionRefused ==
    [name |-> "SequelizeConnectionRefusedError",
     message |-> "connect ECONNREFUSED 127.0.0.1:5432", errors |-> {}]

AcquireTimeout ==
    [name |-> "SequelizeConnectionAcquireTimeoutError",
     message |-> "Operation timeout", errors |-> {}]

\* the errors of a database that is down
Outages == {ConnectionRefused, AcquireTimeout}

QueryRejected ==
    [name |-> "SequelizeDatabaseError",
     message |-> "LIMIT and OFFSET must not be negative", errors |-> {}]

InvalidInteger ==
    [name |-> "SequelizeDatabaseError",
     message |-> "invalid input syntax for type integer", errors |-> {}]

NotNullViolation(fields) ==
    [name |-> "SequelizeValidationError", message |-> "notNull Violation",
     errors |-> {[field |-> f, message |-> "cannot be null"] : f \in fields}]

UniqueViolation ==
    [name |-> "SequelizeUniqueConstraintError", message |-> "Validation error",
     errors |-> {[field |-> "id", message |-> "id must be unique"]}]

NoCall ==
    [op |-> "none", where |-> ListWhere(NoQuery), limit |-> NaN, offset |-> NaN,
     error |-> NoError]

Call(op, where) ==
    [op |-> op, where |-> where, limit |-> NaN, offset |-> NaN, error |-> NoError]

-----------------------------------------------------------------------------
(* Responses and the error path *)

NoResp ==
    [status |-> 0, success |-> FALSE, message |-> "", data |-> <<>>,
     pagination |-> <<>>, errors |-> {}]

Ok(status, message, data, pagination) ==
    [status |-> status, success |-> TRUE, message |-> message, data |-> data,
     pagination |-> pagination, errors |-> {}]

\* new AppError(message, statusCode, isOperational, errors)
AppError(message, statusCode, isOperational, errors) ==
    [name |-> "AppError", message |-> message, statusCode |-> statusCode,
     isOperational |-> isOperational, errors |-> errors]

ValidationError(message) == AppError(message, 400, TRUE, {})

AuthenticationError(message) == AppError(message, 401, TRUE, {})

NotFoundError(message) == AppError(message, 404, TRUE, {})

ConflictError(message) == AppError(message, 409, TRUE, {})

DatabaseError(message) == AppError(message, 500, FALSE, {})

Failure(status, message, errors) ==
    [status |-> status, success |-> FALSE, message |-> message, data |-> <<>>,
     pagination |-> <<>>, errors |-> errors]

\* errorHandler: an AppError answers with its own status code, message and
\* errors; a validation error of the ORM (a unique constraint error is one)
\* with 400 and its field errors; anything else with 500 and a fixed message.
ErrorHandler(err) ==
    IF err.name = "AppError"
    THEN Failure(err.statusCode, err.message, err.errors)
    ELSE IF err.name \in {"SequelizeValidationError", "SequelizeUniqueConstraintError"}
    THEN Failure(400, "Validation error occurred", err.errors)
    ELSE Failure(500, "An unexpected error occurred. Please try again later.", {})

\* (mutation of Catch: the store's own message goes into the error passed on)
CatchLeaks(error, message) == DatabaseError(error.message)

\* catch (error) { ...; return next(new DatabaseError(message)) }: whatever
\* was thrown is logged and dropped
Catch(error, message) == DatabaseError(message)

\* a request: the handler it was routed to, its query string, the :id of its
\* path (text) and its body
NoReq == [endpoint |-> "none", query |-> NoQuery, id |-> <<>>, body |-> <<>>]

QueryReq(endpoint, q) == [endpoint |-> endpoint, query |-> q, id |-> <<>>, body |-> <<>>]

-----------------------------------------------------------------------------
(* Tokens, the Authorization header, the users table. Time is counted in
   half hours, the lifetime of an access token. *)

\* expiresIn: JWT_EXPIRES_IN || '30m'
AccessLife == 1

\* expiresIn: JWT_REFRESH_EXPIRES_IN || '7d'
RefreshLife == 336

\* a string that was signed with neither secret
Garbage ==
    [userId |-> 0, email |-> "", type |-> "none", secret |-> "none", iat |-> 0, exp |-> 0]

\* jwt.sign(payload, secret, { expiresIn })
JwtSign(userId, email, type, secret, life) ==
    [userId |-> userId, email |-> email, type |-> type, secret |-> secret,
     iat |-> clock.now, exp |-> clock.now + life]

GenerateAccessToken(userId, email) ==
    JwtSign(userId, email, "access", "JWT_SECRET", AccessLife)

GenerateRefreshToken(userId, email) ==
    JwtSign(userId, email, "refresh", "JWT_REFRESH_SECRET", RefreshLife)

GenerateTokens(userId, email) ==
    [accessToken |-> GenerateAccessToken(userId, email),
     refreshToken |-> GenerateRefreshToken(userId, email),
     expiresIn |-> 30 * 60]

\* (mutation of JwtVerify: the signature is checked, the expiry is not)
JwtVerifyIgnoreExpiration(token, secret) == token.secret = secret

\* jwt.verify(token, secret) does not throw: the token carries the signature
\* of that secret and has not expired
JwtVerify(token, secret) == token.secret = secret /\ clock.now < token.exp

VerifyAccessToken(token) == JwtVerify(token, "JWT_SECRET") /\ token.type = "access"

\* (mutation of VerifyRefreshToken: the type of the token is not looked at)
VerifyRefreshTokenAnyType(token) == JwtVerify(token, "JWT_REFRESH_SECRET")

VerifyRefreshToken(token) ==
    JwtVerify(token, "JWT_REFRESH_SECRET") /\ token.type = "refresh"

NoHeader == [scheme |-> "none", token |-> Garbage]

Bearer(token) == [scheme |-> "Bearer", token |-> token]

\* the token of an 'Authorization: Bearer <token>' header, or null
ExtractTokenFromHeader(h) == IF h.scheme = "Bearer" THEN <<h.token>> ELSE <<>>

\* the password as the users table keeps it
Hash(password) == <<"hash", password>>

\* user.comparePassword(password)
ComparePassword(user, password) == user.password = Hash(password)

\* (mutation of FindUserByEmail: the lookup never finds the user)
FindUserByEmailMisses(email) == {}

\* User.findOne({ where: { email } })
FindUserByEmail(email) == {u \in users : u.email = email}

\* User.findByPk(id)
FindUserByPk(id) == {u \in users : u.id = id}

\* authenticate lets the request through: a Bearer token that verifies as an
\* access token, of a user the table holds
Authenticate(h) ==
    /\ ExtractTokenFromHeader(h) # <<>>
    /\ VerifyAccessToken(h.token)
    /\ dbUp
    /\ FindUserByPk(h.token.userId) # {}

\* the request is never answered
Hung == Failure(0, "no response", {})

\* An error thrown in an async handler or middleware of the authentication
\* routes: passed to the error handler where the route wraps the handler
\* (asyncHandler) or the router forwards rejected promises, left unhandled
\* otherwise.
Thrown(err) == {ErrorHandler(err), Hung}

NoSession == [phase |-> "out", accessToken |-> Garbage, refreshToken |-> Garbage]

-----------------------------------------------------------------------------
(* Pagination and result formatting *)

PageOf(q) == ParseInt(IF q.page = Absent THEN DefaultPage ELSE q.page[1])

LimitOf(q) == ParseInt(IF q.limit = Absent THEN DefaultLimit ELSE q.limit[1])

\* (mutation of Offset: pages counted from 0)
OffsetOffByOne(q) == JsMul(PageOf(q), LimitOf(q))

\* const offset = (parseInt(page, 10) - 1) * parseInt(limit, 10)
Offset(q) == JsMul(JsSub(PageOf(q), Num(1)), LimitOf(q))

\* (mutation of Pagination: totalPages rounded down)
PaginationFloor(q, count) ==
    [currentPage |-> PageOf(q),
     totalPages |-> IF IsNum(LimitOf(q)) /\ LimitOf(q).v > 0
                    THEN Num(count \div LimitOf(q).v) ELSE CeilDiv(count, LimitOf(q)),
     totalRecords |-> count, recordsPerPage |-> LimitOf(q)]

Pagination(q, count) ==
    [currentPage |-> PageOf(q), totalPages |-> CeilDiv(count, LimitOf(q)),
     totalRecords |-> count, recordsPerPage |-> LimitOf(q)]

\* One row of the summary query as the driver returns it, then formatted
SummaryRaw(ids, svc) ==
    [serviceName |-> svc, totalCost |-> DecimalText(SumCost(GroupIds(ids, svc))),
     recordCount |-> IntText(Cardinality(GroupIds(ids, svc)))]

FormatSummary(raw) ==
    [serviceName |-> raw.serviceName, totalCost |-> ParseFloat(OrZero(raw.totalCost)),
     recordCount |-> ParseInt(OrZero(raw.recordCount))]

TrendRaw(ids, day) ==
    [date |-> day, dailyCost |-> DecimalText(SumCost({i \in ids : store[i].date = day}))]

FormatTrend(raw) ==
    [date |-> NewDate(raw.date), dailyCost |-> ParseFloat(OrZero(raw.dailyCost))]

-----------------------------------------------------------------------------
(* Inputs *)

EC2a == [date |-> 2, serviceName |-> "EC2", costAmount |-> 100,
         region |-> "us-east-1", accountId |-> "123456789012"]

S3a  == [date |-> 2, serviceName |-> "S3", costAmount |-> 100,
         region |-> "us-east-1", accountId |-> "123456789012"]

S3b  == [date |-> 1, serviceName |-> "S3", costAmount |-> 250,
         region |-> "us-west-2", accountId |-> "987654321098"]

S3c  == [date |-> 3, serviceName |-> "S3", costAmount |-> 50,
         region |-> "eu-west-1", accountId |-> "987654321098"]

\* a payload without serviceName
Incomplete == [date |-> 2, costAmount |-> 100, region |-> "us-east-1",
               accountId |-> "123456789012"]

CreateBodies == {EC2a, S3a, S3b, S3c, Incomplete}

\* a partial update: only the service is overwritten
UpdateBodies == {[serviceName |-> "S3"]}

Ids == 1..MaxRecords

\* the :id of a path: the ids the store may assign, and a text that is no id
PathIds == {IntText(i) : i \in Ids} \cup {<<"a", "b", "c">>}

FilterQueries ==
    {[page |-> Absent, limit |-> Absent, startDate |-> sd, endDate |-> ed,
      serviceName |-> sv, region |-> rg, accountId |-> ac] :
        sd \in {Absent, Some(2)}, ed \in {Absent, Some(2)},
        sv \in {NoDim, One("EC2"), Many(<<"S3", "RDS">>)},
        rg \in {NoDim, One("us-east-1"), Many(<<"us-west-2", "us-east-1">>)},
        ac \in {NoDim, One("987654321098"), Many(<<"555555555555", "123456789012">>)}}

PageTexts == {<<"1">>, <<"2">>, <<"3">>, <<"4">>, <<"0">>, <<"a", "b", "c">>}

LimitTexts == {<<"1">>, <<"2">>, <<"0">>, <<"-", "5">>}

PagingQueries ==
    {[page |-> pg, limit |-> lm, startDate |-> Absent, endDate |-> Absent,
      serviceName |-> sv, region |-> NoDim, accountId |-> NoDim] :
        pg \in {Absent} \cup {Some(t) : t \in PageTexts},
        lm \in {Absent} \cup {Some(t) : t \in LimitTexts},
        sv \in {NoDim, Many(<<"S3", "RDS">>)}}

\* every pair of date bounds over the days in use, the inverted ones included
DateQueries ==
    {[page |-> Absent, limit |-> Absent, startDate |-> sd, endDate |-> ed,
      serviceName |-> NoDim, region |-> NoDim, accountId |-> NoDim] :
        sd \in {Absent, Some(1), Some(2), Some(3)},
        ed \in {Absent, Some(1), Some(2), Some(3)}}

ListQueries == FilterQueries \cup PagingQueries \cup DateQueries

\* what the paging client asks for: a filter and a page size
PagerQueries ==
    {[page |-> Absent, limit |-> Some(lm), startDate |-> Absent, endDate |-> ed,
      serviceName |-> sv, region |-> NoDim, accountId |-> NoDim] :
        lm \in {<<"1">>, <<"2">>}, ed \in {Absent, Some(2)},
        sv \in {NoDim, Many(<<"S3", "RDS">>)}}

-----------------------------------------------------------------------------
(* State *)

PagerIdle == [state |-> "idle", query |-> NoQuery, next |-> 1, rows |-> <<>>]

\* a request slot with no request in it
NoTask ==
    [pc |-> "idle", op |-> "none", id |-> <<>>, body |-> <<>>, found |-> <<>>,
     resp |-> NoResp]

NoTasks == [t \in 1..MaxConcurrent |-> NoTask]

\* no getAvailableFilters request in progress
NoFlight ==
    [pending |-> {}, fulfilled |-> {}, rejected |-> {},
     serviceName |-> <<>>, region |-> <<>>, accountId |-> <<>>]

\* (mutation of PromiseAll: the three queries are awaited as Promise.allSettled)
PromiseAllSettled(fl) == IF fl.pending = {} THEN "fulfilled" ELSE "pending"

\* Promise.all over the three queries: rejected with the first rejection,
\* fulfilled when all three are, pending until then
PromiseAll(fl) ==
    IF fl.rejected # {} THEN "rejected"
    ELSE IF fl.fulfilled = FilterColumns THEN "fulfilled"
    ELSE "pending"

NoRaw == [mode |-> "none", row |-> <<>>]

NoLast == [req |-> NoReq, resp |-> NoResp]

Init ==
    /\ store = <<>>
    /\ nextId = 1
    /\ dbUp = TRUE
    /\ dbCall = NoCall
    /\ req = NoReq
    /\ resp = NoResp
    /\ pager = PagerIdle
    /\ flight = NoFlight
    /\ aggRow = NoRaw
    /\ last = NoLast
    /\ authz = NoHeader
    /\ users = {}
    /\ clock = [now |-> 0, ticks |-> 0]
    /\ session = NoSession
    /\ tasks = NoTasks
    /\ thrown = NoError

-----------------------------------------------------------------------------
(* Handlers of the cost controller *)

\* A store call that throws inside a handler's try block: the catch block
\* answers through next(error) and the error handler.
StoreThrows(call, errors, message) ==
    \E e \in errors :
        /\ dbCall' = [call EXCEPT !.error = e]
        /\ resp' = ErrorHandler(Catch(e, message))

\* GET /api/costs
GetCostRecords(q) ==
    LET call == [op |-> "findAndCountAll", where |-> ListWhere(q),
                 limit |-> LimitOf(q), offset |-> Offset(q), error |-> NoError]
    IN  /\ resp = NoResp
        /\ req' = QueryReq("getCostRecords", q)
        /\ IF ~dbUp
           THEN StoreThrows(call, Outages, "Failed to fetch cost records")
           ELSE IF ~StoreAccepts(LimitOf(q), Offset(q))
           THEN StoreThrows(call, {QueryRejected}, "Failed to fetch cost records")
           ELSE /\ dbCall' = call
                /\ \E ord \in DateDescOrders(MatchingIds(ListWhere(q))) :
                     resp' = Ok(200, "",
                                [k \in DOMAIN Page(ord, LimitOf(q).v, Offset(q).v) |->
                                   Row(Page(ord, LimitOf(q).v, Offset(q).v)[k])],
                                <<Pagination(q, Len(ord))>>)
        /\ UNCHANGED <<store, nextId, dbUp>>

\* GET /api/costs/summary
GetCostSummaryByService(q) ==
    /\ resp = NoResp
    /\ req' = QueryReq("getCostSummaryByService", q)
    /\ IF dbUp
       THEN LET ids == MatchingIds(SummaryWhere(q))
                G   == {store[i].serviceName : i \in ids}
            IN  /\ dbCall' = Call("findAll", SummaryWhere(q))
                /\ \E ord \in SumDescOrders(G, ids) :
                     resp' = Ok(200, "",
                                [k \in DOMAIN ord |-> FormatSummary(SummaryRaw(ids, ord[k]))],
                                <<>>)
       ELSE StoreThrows(Call("findAll", SummaryWhere(q)), Outages,
                        "Failed to fetch cost summary")
    /\ UNCHANGED <<store, nextId, dbUp>>

\* GET /api/costs/trends
GetCostTrends(q) ==
    /\ resp = NoResp
    /\ req' = QueryReq("getCostTrends", q)
    /\ IF dbUp
       THEN LET ids == MatchingIds(TrendsWhere(q))
                ord == DateAsc({store[i].date : i \in ids})
            IN  /\ dbCall' = Call("findAll", TrendsWhere(q))
                /\ resp' = Ok(200, "",
                              [k \in DOMAIN ord |-> FormatTrend(TrendRaw(ids, ord[k]))],
                              <<>>)
       ELSE StoreThrows(Call("findAll", TrendsWhere(q)), Outages,
                        "Failed to fetch cost trends")
    /\ UNCHANGED <<store, nextId, dbUp>>

\* GET /api/costs/filters: the three SELECT DISTINCT queries are issued at
\* once (Promise.all); each completes on its own, see FilterQueryCompletes.
GetAvailableFilters(q) ==
    /\ resp = NoResp
    /\ flight = NoFlight
    /\ req' = QueryReq("getAvailableFilters", q)
    /\ dbCall' = Call("findAll", ListWhere(NoQuery))
    /\ flight' = [NoFlight EXCEPT !.pending = FilterColumns]
    /\ UNCHANGED <<store, nextId, dbUp, resp>>

\* One of the three queries completes, with its rows or with an error. The
\* handler resumes when Promise.all settles: with the first error thrown,
\* into the catch block, or with the last of the three results, into the
\* mapping and res.json. Completions after the answer change nothing.
FilterQueryCompletes(column) ==
    /\ column \in flight.pending
    /\ IF dbUp
       THEN \E rows \in DistinctRows(column) :
              flight' = [flight EXCEPT !.pending = @ \ {column},
                                       !.fulfilled = @ \cup {column},
                                       ![column] = rows]
       ELSE flight' = [flight EXCEPT !.pending = @ \ {column},
                                     !.rejected = @ \cup {column}]
    /\ IF resp # NoResp
       THEN UNCHANGED <<resp, dbCall>>
       ELSE IF PromiseAll(flight') = "rejected"
       THEN StoreThrows(dbCall, Outages, "Failed to fetch available filters")
       ELSE IF PromiseAll(flight') = "fulfilled"
       THEN /\ resp' = Ok(200, "",
                          <<[services |-> flight'.serviceName,
                             regions  |-> flight'.region,
                             accounts |-> flight'.accountId]>>,
                          <<>>)
            /\ UNCHANGED dbCall
       ELSE UNCHANGED <<resp, dbCall>>
    /\ UNCHANGED <<store, nextId, dbUp, req>>

\* POST /api/costs. CostRecord.create validates the payload before it reaches
\* the database; the insert fails when the database is down or the id given
\* is taken.
CreateCostRecord(body) ==
    LET id     == IF "id" \in DOMAIN body THEN body.id ELSE nextId
        valid  == RequiredFields \subseteq DOMAIN body
        rec    == [f \in RequiredFields |-> body[f]]
        call   == Call("create", ListWhere(NoQuery))
        throws == IF ~valid THEN {NotNullViolation(RequiredFields \ DOMAIN body)}
                  ELSE IF ~dbUp THEN Outages
                  ELSE IF id \in DOMAIN store THEN {UniqueViolation}
                  ELSE {}
    IN  /\ resp = NoResp
        /\ "id" \in DOMAIN body \/ nextId <= MaxRecords
        /\ req' = [endpoint |-> "createCostRecord", query |-> NoQuery, id |-> <<>>,
                   body |-> body]
        /\ nextId' = IF dbUp /\ valid /\ "id" \notin DOMAIN body
                     THEN nextId + 1 ELSE nextId
        /\ IF throws = {}
           THEN /\ store' = [i \in DOMAIN store \cup {id} |->
                               IF i = id THEN rec ELSE store[i]]
                /\ dbCall' = call
                /\ resp' = Ok(201, "Cost record created successfully",
                              <<RowOf(id, rec)>>, <<>>)
           ELSE /\ store' = store
                /\ StoreThrows(call, throws, "Failed to create cost record")
        /\ UNCHANGED dbUp

\* PUT /api/costs/:id
UpdateCostRecord(id, body) ==
    /\ resp = NoResp
    /\ req' = [endpoint |-> "updateCostRecord", query |-> NoQuery, id |-> id, body |-> body]
    /\ IF ~dbUp
       THEN /\ StoreThrows(Call("findByPk", ListWhere(NoQuery)), Outages,
                           "Failed to update cost record")
            /\ store' = store
       ELSE IF ~IsNum(PgInteger(id))
       THEN /\ StoreThrows(Call("findByPk", ListWhere(NoQuery)), {InvalidInteger},
                           "Failed to update cost record")
            /\ store' = store
       ELSE IF FindByPk(id) = {}
       THEN /\ resp' = ErrorHandler(NotFoundError("Cost record not found"))
            /\ dbCall' = Call("findByPk", ListWhere(NoQuery))
            /\ store' = store
       ELSE \E pk \in FindByPk(id) :
              LET rec == [f \in RequiredFields |->
                            IF f \in DOMAIN body THEN body[f] ELSE store[pk][f]]
              IN  /\ store' = [store EXCEPT ![pk] = rec]
                  /\ dbCall' = Call("update", ListWhere(NoQuery))
                  /\ resp' = Ok(200, "Cost record updated successfully",
                                <<RowOf(pk, rec)>>, <<>>)
    /\ UNCHANGED <<nextId, dbUp>>

\* DELETE /api/costs/:id
DeleteCostRecord(id) ==
    /\ resp = NoResp
    /\ req' = [endpoint |-> "deleteCostRecord", query |-> NoQuery, id |-> id, body |-> <<>>]
    /\ IF ~dbUp
       THEN /\ StoreThrows(Call("findByPk", ListWhere(NoQuery)), Outages,
                           "Failed to delete cost record")
            /\ store' = store
       ELSE IF ~IsNum(PgInteger(id))
       THEN /\ StoreThrows(Call("findByPk", ListWhere(NoQuery)), {InvalidInteger},
                           "Failed to delete cost record")
            /\ store' = store
       ELSE IF FindByPk(id) = {}
       THEN /\ resp' = ErrorHandler(NotFoundError("Cost record not found"))
            /\ dbCall' = Call("findByPk", ListWhere(NoQuery))
            /\ store' = store
       ELSE /\ store' = [i \in DOMAIN store \ FindByPk(id) |-> store[i]]
            /\ dbCall' = Call("destroy", ListWhere(NoQuery))
            /\ resp' = Ok(200, "Cost record deleted successfully", <<>>, <<>>)
    /\ UNCHANGED <<nextId, dbUp>>

\* res.json / res.status().json: the response leaves the server, once every
\* store query of the request has come back, and the client is free to send
\* its next request. A request that is never answered (status 0) stays open.
ResponseSent ==
    /\ resp.status # 0
    /\ flight.pending = {}
    /\ resp' = NoResp
    /\ req' = NoReq
    /\ dbCall' = NoCall
    /\ flight' = NoFlight
    /\ authz' = NoHeader
    /\ thrown' = NoError
    /\ UNCHANGED <<store, nextId, dbUp, pager, aggRow, last, users, clock, session, tasks>>

-----------------------------------------------------------------------------
(* Specification of the query engine on a database that answers *)

\* a request to the cost routes alone: nothing of the catalog queries, the
\* formatter input, the repeating client or the authentication state moves
CostsOnly ==
    /\ flight = NoFlight
    /\ UNCHANGED <<flight, aggRow, last, authz, users, clock, session, thrown, tasks>>

List == \E q \in ListQueries : GetCostRecords(q) /\ pager' = PagerIdle /\ CostsOnly

Summary ==
    \E q \in FilterQueries : GetCostSummaryByService(q) /\ pager' = PagerIdle /\ CostsOnly

Trends == \E q \in FilterQueries : GetCostTrends(q) /\ pager' = PagerIdle /\ CostsOnly

Create == \E body \in CreateBodies : CreateCostRecord(body) /\ pager' = PagerIdle /\ CostsOnly

Update ==
    \E id \in PathIds, body \in UpdateBodies :
        UpdateCostRecord(id, body) /\ pager' = PagerIdle /\ CostsOnly

Delete == \E id \in PathIds : DeleteCostRecord(id) /\ pager' = PagerIdle /\ CostsOnly

Next == List \/ Summary \/ Trends \/ Create \/ Update \/ Delete \/ ResponseSent

Spec == Init /\ [][Next]_vars

-----------------------------------------------------------------------------
(* A client that reads the whole list: page 1, 2, ... up to totalPages, each
   page one GET /api/costs with the same filter and limit. Any write to the
   store in between abandons the read. *)

PagerAfter(q, page, rows, r) ==
    IF ~r.success THEN PagerIdle
    ELSE LET got   == rows \o [k \in DOMAIN r.data |-> r.data[k].id]
             total == r.pagination[1].totalPages
         IN  IF ~IsNum(total) \/ page >= total.v
             THEN [state |-> "done", query |-> q, next |-> page, rows |-> got]
             ELSE [state |-> "paging", query |-> q, next |-> page + 1, rows |-> got]

PagerStart ==
    \E q \in PagerQueries :
        /\ pager.state \in {"idle", "done"}
        /\ GetCostRecords([q EXCEPT !.page = Some(IntText(1))])
        /\ pager' = PagerAfter(q, 1, <<>>, resp')
        /\ CostsOnly

PagerNext ==
    /\ pager.state = "paging"
    /\ GetCostRecords([pager.query EXCEPT !.page = Some(IntText(pager.next))])
    /\ pager' = PagerAfter(pager.query, pager.next, pager.rows, resp')
    /\ CostsOnly

NextPager == PagerStart \/ PagerNext \/ Create \/ Update \/ Delete \/ ResponseSent

SpecPager == Init /\ [][NextPager]_vars

-----------------------------------------------------------------------------
(* Specification of the cost routes on a database that can fail: it goes down
   and comes back at any moment, also between the three catalog queries. *)

\* an unpaged request and one whose page the database rejects
StoreQueries == {NoQuery, [NoQuery EXCEPT !.page = Some(<<"0">>)]}

\* getAvailableFilters is sent with and without query parameters
CatalogQueries == {NoQuery, [NoQuery EXCEPT !.serviceName = One("EC2")]}

Reads ==
    \E q \in StoreQueries :
        /\ \/ GetCostRecords(q)
           \/ GetCostSummaryByService(q)
           \/ GetCostTrends(q)
        /\ pager' = PagerIdle
        /\ CostsOnly

Filters ==
    \E q \in CatalogQueries :
        /\ GetAvailableFilters(q)
        /\ UNCHANGED <<pager, aggRow, last, authz, users, clock, session, thrown, tasks>>

FilterQueryDone ==
    \E column \in FilterColumns :
        /\ FilterQueryCompletes(column)
        /\ UNCHANGED <<pager, aggRow, last, authz, users, clock, session, thrown, tasks>>

StoreFails ==
    /\ dbUp
    /\ dbUp' = FALSE
    /\ UNCHANGED <<store, nextId, dbCall, req, resp, pager,
                   flight, aggRow, last, authz, users, clock, session, thrown, tasks>>

StoreRecovers ==
    /\ ~dbUp
    /\ dbUp' = TRUE
    /\ UNCHANGED <<store, nextId, dbCall, req, resp, pager,
                   flight, aggRow, last, authz, users, clock, session, thrown, tasks>>

NextStore ==
    \/ Reads \/ Filters \/ FilterQueryDone \/ Create \/ Update \/ Delete
    \/ StoreFails \/ StoreRecovers \/ ResponseSent

SpecStore == Init /\ [][NextStore]_vars

-----------------------------------------------------------------------------
(* Specification of the result formatter alone: the mapping of the summary
   and trend handlers applied to one aggregate row, for every text the SUM
   and COUNT columns may arrive as. *)

\* null, undefined or '' (absent), numbers as the driver prints them, and
\* texts that are no number
SumTexts ==
    {<<>>, <<"0", ".", "0", "0">>, <<"1", "2", ".", "5", "0">>,
     <<"1", "0", "0", ".", "0", "0">>, <<"-", "5", ".", "0", "0">>,
     <<"N", "a", "N">>, <<"a", "b", "c">>, <<".">>}

CountTexts == {<<>>, <<"0">>, <<"3">>, <<"1", "2">>, <<"a", "b", "c">>, <<"-">>}

RawRows ==
    {[mode |-> "summary",
      row |-> [serviceName |-> "EC2", totalCost |-> t, recordCount |-> c]] :
        t \in SumTexts, c \in CountTexts}
    \cup {[mode |-> "trend", row |-> [date |-> 2, dailyCost |-> t]] : t \in SumTexts}

InitFormat ==
    /\ aggRow \in RawRows
    /\ store = <<>>
    /\ nextId = 1
    /\ dbUp = TRUE
    /\ dbCall = NoCall
    /\ req = NoReq
    /\ resp = NoResp
    /\ pager = PagerIdle
    /\ flight = NoFlight
    /\ last = NoLast
    /\ authz = NoHeader
    /\ users = {}
    /\ clock = [now |-> 0, ticks |-> 0]
    /\ session = NoSession
    /\ tasks = NoTasks
    /\ thrown = NoError

\* serviceSummary.map(...) on one row
FormatSummaryRow ==
    /\ aggRow.mode = "summary"
    /\ resp = NoResp
    /\ resp' = Ok(200, "", <<FormatSummary(aggRow.row)>>, <<>>)
    /\ UNCHANGED <<store, nextId, dbUp, dbCall, req, pager,
                   flight, aggRow, last, authz, users, clock, session, thrown, tasks>>

\* dailyTrends.map(...) on one row
FormatTrendRow ==
    /\ aggRow.mode = "trend"
    /\ resp = NoResp
    /\ resp' = Ok(200, "", <<FormatTrend(aggRow.row)>>, <<>>)
    /\ UNCHANGED <<store, nextId, dbUp, dbCall, req, pager,
                   flight, aggRow, last, authz, users, clock, session, thrown, tasks>>

NextFormat == FormatSummaryRow \/ FormatTrendRow

SpecFormat == InitFormat /\ [][NextFormat]_vars

-----------------------------------------------------------------------------
(* A client that sends a query and sends it again while nobody writes to the
   store: it keeps its first request and the answer to it. The records
   written are two of one date and one amount, in two services. *)

RepeatQueries == {NoQuery, [NoQuery EXCEPT !.limit = Some(<<"1">>)]}

Remember == last' = IF last.req = req' THEN last ELSE [req |-> req', resp |-> resp']

Ask ==
    \E q \in RepeatQueries :
        /\ \/ GetCostRecords(q)
           \/ GetCostSummaryByService(q)
           \/ GetCostTrends(q)
        /\ Remember
        /\ UNCHANGED <<pager, flight, aggRow, authz, users, clock, session, thrown, tasks>>

Write ==
    /\ \/ \E body \in {EC2a, S3a} : CreateCostRecord(body)
       \/ \E id \in PathIds, body \in UpdateBodies : UpdateCostRecord(id, body)
       \/ \E id \in PathIds : DeleteCostRecord(id)
    /\ last' = NoLast
    /\ UNCHANGED <<pager, flight, aggRow, authz, users, clock, session, thrown, tasks>>

NextRepeat == Ask \/ Write \/ ResponseSent

SpecRepeat == Init /\ [][NextRepeat]_vars

-----------------------------------------------------------------------------
(* Handlers of the authentication routes *)

AuthReq(endpoint, body) ==
    [endpoint |-> endpoint, query |-> NoQuery, id |-> <<>>, body |-> body]

\* throw err, out of the async handler or middleware
Throws(err) == thrown' = err /\ resp' \in Thrown(err)

\* res.status(...).json(...): the handler answers and returns
Responds(response) == thrown' = NoError /\ resp' = response

\* POST /api/auth/register
Register(email, password) ==
    /\ resp = NoResp
    /\ req' = AuthReq("register", [email |-> email, password |-> password])
    /\ IF email = "" \/ password = ""
       THEN /\ Throws(ValidationError("Email and password are required"))
            /\ users' = users
       ELSE IF ~dbUp
       THEN /\ \E e \in Outages : Throws(e)
            /\ users' = users
       ELSE IF FindUserByEmail(email) # {}
       THEN /\ Throws(ConflictError("User with this email already exists"))
            /\ users' = users
       ELSE /\ users' = users \cup {[id |-> Cardinality(users) + 1, email |-> email,
                                     password |-> Hash(password)]}
            /\ Responds(Ok(201, "Registration successful. You can now log in.",
                           <<[email |-> email]>>, <<>>))
    /\ UNCHANGED <<store, nextId, dbUp, dbCall>>

\* (mutation of Login: an email that is not registered is reported as such)
LoginTellsUnknownEmail(email, password) ==
    /\ resp = NoResp
    /\ req' = AuthReq("login", [email |-> email, password |-> password])
    /\ IF email = "" \/ password = ""
       THEN Throws(ValidationError("Email and password are required"))
       ELSE IF ~dbUp
       THEN \E e \in Outages : Throws(e)
       ELSE IF FindUserByEmail(email) = {}
       THEN Throws(NotFoundError("User not found"))
       ELSE \E user \in FindUserByEmail(email) :
              IF ~ComparePassword(user, password)
              THEN Throws(AuthenticationError("Invalid email or password"))
              ELSE Responds(Ok(200, "Login successful",
                               <<[user |-> [id |-> user.id, email |-> user.email],
                                  tokens |-> GenerateTokens(user.id, user.email)]>>,
                               <<>>))
    /\ UNCHANGED <<store, nextId, dbUp, dbCall, users>>

\* POST /api/auth/login
Login(email, password) ==
    /\ resp = NoResp
    /\ req' = AuthReq("login", [email |-> email, password |-> password])
    /\ IF email = "" \/ password = ""
       THEN Throws(ValidationError("Email and password are required"))
       ELSE IF ~dbUp
       THEN \E e \in Outages : Throws(e)
       ELSE IF FindUserByEmail(email) = {}
       THEN Throws(AuthenticationError("Invalid email or password"))
       ELSE \E user \in FindUserByEmail(email) :
              IF ~ComparePassword(user, password)
              THEN Throws(AuthenticationError("Invalid email or password"))
              ELSE Responds(Ok(200, "Login successful",
                               <<[user |-> [id |-> user.id, email |-> user.email],
                                  tokens |-> GenerateTokens(user.id, user.email)]>>,
                               <<>>))
    /\ UNCHANGED <<store, nextId, dbUp, dbCall, users>>

\* POST /api/auth/refresh: whatever is thrown that is no ValidationError and
\* no NotFoundError leaves the handler as AuthenticationError
RefreshToken(refreshToken) ==
    /\ resp = NoResp
    /\ req' = AuthReq("refresh", [refreshToken |-> refreshToken])
    /\ IF refreshToken = Absent
       THEN Throws(ValidationError("Refresh token is required"))
       ELSE IF ~VerifyRefreshToken(refreshToken[1]) \/ ~dbUp
       THEN Throws(AuthenticationError("Invalid refresh token"))
       ELSE IF FindUserByPk(refreshToken[1].userId) = {}
       THEN Throws(NotFoundError("User not found"))
       ELSE \E user \in FindUserByPk(refreshToken[1].userId) :
              Responds(Ok(200, "Token refreshed successfully",
                          <<[user |-> [id |-> user.id, email |-> user.email],
                             tokens |-> GenerateTokens(user.id, user.email)]>>,
                          <<>>))
    /\ UNCHANGED <<store, nextId, dbUp, dbCall, users>>

\* POST /api/auth/logout, behind authenticate
Logout(h) ==
    /\ resp = NoResp
    /\ req' = AuthReq("logout", <<>>)
    /\ IF ~Authenticate(h)
       THEN Throws(AuthenticationError("Invalid or expired token"))
       ELSE Responds(Ok(200, "Logout successful", <<>>, <<>>))
    /\ UNCHANGED <<store, nextId, dbUp, dbCall, users>>

\* GET /api/auth/profile, behind authenticate: answers with req.user, which
\* authenticate has set to the id and email of the user it found
GetProfile(h) ==
    /\ resp = NoResp
    /\ req' = AuthReq("getProfile", <<>>)
    /\ IF ~Authenticate(h)
       THEN Throws(AuthenticationError("Invalid or expired token"))
       ELSE \E user \in FindUserByPk(h.token.userId) :
              Responds(Ok(200, "", <<[user |-> [id |-> user.id, email |-> user.email]]>>,
                          <<>>))
    /\ UNCHANGED <<store, nextId, dbUp, dbCall, users>>

-----------------------------------------------------------------------------
(* Specification of the application as mounted: the authentication routes
   and the cost routes, called by a client that registers, logs in, logs
   out, refreshes, and sends cost requests with whatever Authorization
   header it has. *)

Emails == {"", "ann@example.com"}

Passwords == {"", "correct horse"}

\* no header, a header that holds no token of this server, and the tokens
\* the client was issued
Headers ==
    {NoHeader, Bearer(Garbage), Bearer(session.accessToken), Bearer(session.refreshToken)}

RefreshBodies == {Absent, Some(Garbage), Some(session.refreshToken), Some(session.accessToken)}

\* a request to the authentication routes
AuthOnly ==
    /\ flight = NoFlight
    /\ UNCHANGED <<pager, flight, aggRow, last, clock, tasks>>

ApiRegister ==
    \E email \in Emails, password \in Passwords :
        /\ Register(email, password)
        /\ authz' = NoHeader
        /\ session' = session
        /\ AuthOnly

\* the client keeps the tokens a successful login returns
ApiLogin ==
    \E email \in Emails \cup {"bob@example.com"}, password \in Passwords \cup {"guess"} :
        /\ Login(email, password)
        /\ authz' = NoHeader
        /\ session' = IF resp'.success
                      THEN [phase |-> "in",
                            accessToken |-> resp'.data[1].tokens.accessToken,
                            refreshToken |-> resp'.data[1].tokens.refreshToken]
                      ELSE session
        /\ AuthOnly

ApiRefresh ==
    \E refreshToken \in RefreshBodies :
        /\ RefreshToken(refreshToken)
        /\ authz' = NoHeader
        /\ session' = session
        /\ AuthOnly

\* a logout that succeeds with the client's access token ends its session
ApiLogout ==
    \E h \in Headers :
        /\ Logout(h)
        /\ authz' = h
        /\ session' = IF resp'.success /\ session.phase = "in" /\ h = Bearer(session.accessToken)
                      THEN [session EXCEPT !.phase = "loggedOut"]
                      ELSE session
        /\ AuthOnly

\* app.use('/api/costs', costRoutes): the routes of the cost router
ApiCosts ==
    \E h \in Headers :
        /\ authz' = h
        /\ flight = NoFlight
        /\ \/ GetCostRecords(NoQuery) /\ flight' = flight
           \/ GetCostSummaryByService(NoQuery) /\ flight' = flight
           \/ GetCostTrends(NoQuery) /\ flight' = flight
           \/ GetAvailableFilters(NoQuery)
           \/ nextId <= MaxApiRecords /\ CreateCostRecord(EC2a) /\ flight' = flight
           \/ \E id \in PathIds, body \in UpdateBodies :
                UpdateCostRecord(id, body) /\ flight' = flight
           \/ \E id \in PathIds : DeleteCostRecord(id) /\ flight' = flight
        /\ UNCHANGED <<pager, aggRow, last, users, clock, session, thrown, tasks>>

Tick ==
    /\ clock.ticks < MaxTicks
    /\ \E d \in {AccessLife, RefreshLife} :
          clock' = [now |-> clock.now + d, ticks |-> clock.ticks + 1]
    /\ UNCHANGED <<store, nextId, dbUp, dbCall, req, resp, pager,
                   flight, aggRow, last, authz, users, session, thrown, tasks>>

NextApi ==
    \/ ApiRegister \/ ApiLogin \/ ApiRefresh \/ ApiLogout \/ ApiCosts
    \/ FilterQueryDone \/ Tick \/ ResponseSent

SpecApi == Init /\ [][NextApi]_vars

-----------------------------------------------------------------------------
(* Specification of the authentication routes alone, on a database that can
   fail, called with the client's tokens and with tokens of a user the table
   holds no more. *)

\* a user the table held once and holds no more: the tokens issued to them
\* still verify
Removed == [id |-> 2, email |-> "bob@example.com"]

AuthHeaders == Headers \cup {Bearer(GenerateAccessToken(Removed.id, Removed.email))}

AuthRefresh ==
    \E refreshToken \in
          RefreshBodies \cup {Some(GenerateRefreshToken(Removed.id, Removed.email))} :
        /\ RefreshToken(refreshToken)
        /\ authz' = NoHeader
        /\ session' = session
        /\ AuthOnly

\* router.post('/logout', authenticate, logout)
AuthLogout ==
    \E h \in AuthHeaders :
        /\ Logout(h)
        /\ authz' = h
        /\ session' = session
        /\ AuthOnly

\* router.get('/profile', authenticate, getProfile)
AuthProfile ==
    \E h \in AuthHeaders :
        /\ GetProfile(h)
        /\ authz' = h
        /\ session' = session
        /\ AuthOnly

NextAuth ==
    \/ ApiRegister \/ ApiLogin \/ AuthRefresh \/ AuthLogout \/ AuthProfile
    \/ Tick \/ StoreFails \/ StoreRecovers \/ ResponseSent

SpecAuth == Init /\ [][NextAuth]_vars

\* The server finishes what it has begun: a response that was made is sent.
\* Nothing obliges the client to send requests, the clock to advance or the
\* database to fail or recover.
FairAuth == SpecAuth /\ WF_vars(ResponseSent)

-----------------------------------------------------------------------------
(* Specification of the error handler alone: errorHandler applied to one
   error, for every error the handlers, the middleware and the store calls
   throw. *)

CostEndpoints ==
    {"getCostRecords", "getCostSummaryByService", "getCostTrends", "getAvailableFilters",
     "createCostRecord", "updateCostRecord", "deleteCostRecord"}

\* the message each cost endpoint reports a store failure with
FixedMessage(endpoint) ==
    CASE endpoint = "getCostRecords"          -> "Failed to fetch cost records"
      [] endpoint = "getCostSummaryByService" -> "Failed to fetch cost summary"
      [] endpoint = "getCostTrends"           -> "Failed to fetch cost trends"
      [] endpoint = "getAvailableFilters"     -> "Failed to fetch available filters"
      [] endpoint = "createCostRecord"        -> "Failed to create cost record"
      [] endpoint = "updateCostRecord"        -> "Failed to update cost record"
      [] endpoint = "deleteCostRecord"        -> "Failed to delete cost record"

\* a second insert of an email: the unique index of the users table
UniqueEmailViolation ==
    [name |-> "SequelizeUniqueConstraintError", message |-> "Validation error",
     errors |-> {[field |-> "email", message |-> "email must be unique"]}]

AppErrors ==
    {DatabaseError(FixedMessage(e)) : e \in CostEndpoints}
    \cup {NotFoundError(m) : m \in {"Cost record not found", "User not found"}}
    \cup {ValidationError(m) :
            m \in {"Email and password are required", "Refresh token is required"}}
    \cup {ConflictError("User with this email already exists")}
    \cup {AuthenticationError(m) :
            m \in {"Invalid email or password", "Invalid refresh token", "Unauthorized",
                   "Access token is required", "User not found",
                   "Invalid or expired token"}}

StoreErrors ==
    {NotNullViolation(fields) : fields \in SUBSET RequiredFields \ {{}}}
    \cup {UniqueViolation, UniqueEmailViolation, QueryRejected, InvalidInteger}
    \cup Outages

InitErrors ==
    /\ thrown \in AppErrors \cup StoreErrors
    /\ store = <<>>
    /\ nextId = 1
    /\ dbUp = TRUE
    /\ dbCall = NoCall
    /\ req = NoReq
    /\ resp = NoResp
    /\ pager = PagerIdle
    /\ flight = NoFlight
    /\ aggRow = NoRaw
    /\ last = NoLast
    /\ authz = NoHeader
    /\ users = {}
    /\ clock = [now |-> 0, ticks |-> 0]
    /\ session = NoSession
    /\ tasks = NoTasks

\* app.use(errorHandler): the error passed to next(err) is answered
HandleError ==
    /\ resp = NoResp
    /\ resp' = ErrorHandler(thrown)
    /\ UNCHANGED <<store, nextId, dbUp, dbCall, req, pager,
                   flight, aggRow, last, authz, users, clock, session, thrown, tasks>>

SpecErrors == InitErrors /\ [][HandleError]_vars

-----------------------------------------------------------------------------
(* Specification of concurrent updates and deletes: each handler runs up to
   its first store call (findByPk) in one step and its second one (update,
   destroy) in another, and the steps of different requests interleave. Each
   store call is one atomic statement. *)

\* the requests that can be under way at a time
Slots == 1..MaxConcurrent

\* const costRecord = await CostRecord.findByPk(id); if (!costRecord) return
\* next(new NotFoundError(...)): the handler holds the row it found
Finds(t, op, id, body) ==
    /\ tasks[t].pc = "idle"
    /\ IsNum(PgInteger(id))
    /\ IF FindByPk(id) = {}
       THEN tasks' = [tasks EXCEPT ![t] =
                        [pc |-> "done", op |-> op, id |-> id, body |-> body, found |-> <<>>,
                         resp |-> ErrorHandler(NotFoundError("Cost record not found"))]]
       ELSE \E pk \in FindByPk(id) :
              tasks' = [tasks EXCEPT ![t] =
                          [pc |-> "found", op |-> op, id |-> id, body |-> body,
                           found |-> <<Row(pk)>>, resp |-> NoResp]]
    /\ UNCHANGED <<store, nextId, dbUp, dbCall, req, resp, pager,
                   flight, aggRow, last, authz, users, clock, session, thrown>>

\* await costRecord.update(req.body); res.json(...): UPDATE ... WHERE id = the
\* id of the row held, writing the columns of the body; a row that is gone
\* is not an error, and the answer is the row held with the body applied
UpdateSaves(t) ==
    LET held == tasks[t].found[1]
        body == tasks[t].body
        rec  == [f \in DOMAIN held |-> IF f \in DOMAIN body THEN body[f] ELSE held[f]]
    IN  /\ tasks[t].pc = "found"
        /\ tasks[t].op = "updateCostRecord"
        /\ store' = IF held.id \in DOMAIN store
                    THEN [store EXCEPT ![held.id] =
                            [f \in RequiredFields |->
                               IF f \in DOMAIN body THEN body[f] ELSE store[held.id][f]]]
                    ELSE store
        /\ tasks' = [tasks EXCEPT ![t].pc = "done",
                                  ![t].resp = Ok(200, "Cost record updated successfully",
                                                 <<rec>>, <<>>)]
        /\ UNCHANGED <<nextId, dbUp, dbCall, req, resp, pager,
                       flight, aggRow, last, authz, users, clock, session, thrown>>

\* await costRecord.destroy(); res.json(...): DELETE ... WHERE id = the id of
\* the row held; a row that is gone is not an error
DeleteDestroys(t) ==
    /\ tasks[t].pc = "found"
    /\ tasks[t].op = "deleteCostRecord"
    /\ store' = [i \in DOMAIN store \ {tasks[t].found[1].id} |-> store[i]]
    /\ tasks' = [tasks EXCEPT ![t].pc = "done",
                              ![t].resp = Ok(200, "Cost record deleted successfully",
                                             <<>>, <<>>)]
    /\ UNCHANGED <<nextId, dbUp, dbCall, req, resp, pager,
                   flight, aggRow, last, authz, users, clock, session, thrown>>

\* the response of a concurrent request leaves the server
TaskAnswered(t) ==
    /\ tasks[t].pc = "done"
    /\ tasks' = [tasks EXCEPT ![t] = NoTask]
    /\ UNCHANGED <<store, nextId, dbUp, dbCall, req, resp, pager,
                   flight, aggRow, last, authz, users, clock, session, thrown>>

RaceCreate == CreateCostRecord(EC2a) /\ pager' = PagerIdle /\ CostsOnly

RaceUpdate ==
    \/ \E t \in Slots, i \in Ids, body \in UpdateBodies :
          Finds(t, "updateCostRecord", IntText(i), body)
    \/ \E t \in Slots : UpdateSaves(t)

RaceDelete ==
    \/ \E t \in Slots, i \in Ids : Finds(t, "deleteCostRecord", IntText(i), <<>>)
    \/ \E t \in Slots : DeleteDestroys(t)

RaceAnswered == \E t \in Slots : TaskAnswered(t)

NextRace == RaceCreate \/ RaceUpdate \/ RaceDelete \/ RaceAnswered \/ ResponseSent

SpecRace == Init /\ [][NextRace]_vars

-----------------------------------------------------------------------------
(* Specification of the writes with arbitrary payloads: req.body goes to
   CostRecord.create and costRecord.update as it is, so it may carry a
   negative costAmount or an id. *)

\* a payload with a negative amount
Refund == [EC2a EXCEPT !.costAmount = -100]

\* a payload that names its own id
WithId == [id |-> 2] @@ EC2a

PayloadCreate ==
    \E body \in {EC2a, Refund, WithId} :
        CreateCostRecord(body) /\ pager' = PagerIdle /\ CostsOnly

PayloadUpdate ==
    \E id \in PathIds, body \in {[costAmount |-> -50], [id |-> 3, serviceName |-> "S3"]} :
        UpdateCostRecord(id, body) /\ pager' = PagerIdle /\ CostsOnly

NextPayload == PayloadCreate \/ PayloadUpdate \/ Delete \/ ResponseSent

SpecPayload == Init /\ [][NextPayload]_vars

-----------------------------------------------------------------------------
(* What the specification asks of a filter, stated on the request itself *)

Min(a, b) == IF a < b THEN a ELSE b

Max(a, b) == IF a > b THEN a ELSE b

DateWanted(q, day) ==
    /\ q.startDate = Absent \/ day >= q.startDate[1]
    /\ q.endDate = Absent \/ day <= q.endDate[1]

DimWanted(p, val) == p.kind = "absent" \/ \E i \in DOMAIN p.vals : p.vals[i] = val

DimsWanted(q, r) ==
    /\ DimWanted(q.serviceName, r.serviceName)
    /\ DimWanted(q.region, r.region)
    /\ DimWanted(q.accountId, r.accountId)

\* the records the filter of request q selects
Wanted(q) == {i \in DOMAIN store : DateWanted(q, store[i].date) /\ DimsWanted(q, store[i])}

\* page and limit as numbers: 1 and 50 when omitted
ReqPage(q) == IF q.page = Absent THEN Num(1) ELSE ParseInt(q.page[1])

ReqLimit(q) == IF q.limit = Absent THEN Num(50) ELSE ParseInt(q.limit[1])

WellPaged(q) ==
    /\ IsNum(ReqPage(q)) /\ ReqPage(q).v >= 1
    /\ IsNum(ReqLimit(q)) /\ ReqLimit(q).v >= 1

Unpaged(q) == q.page = Absent /\ q.limit = Absent

\* a handler has answered the request of that endpoint
Answered(endpoint) == req.endpoint = endpoint /\ resp # NoResp

RowIds == {resp.data[k].id : k \in DOMAIN resp.data}

RECURSIVE SeqSum(_)
SeqSum(s) == IF s = <<>> THEN 0 ELSE s[1] + SeqSum(Tail(s))

SameDateTwice(S) == \E i, j \in S : i # j /\ store[i].date = store[j].date

\* the alphabetical rank of the service names in use
NameRank(n) == CASE n = "EC2" -> 1 [] n = "RDS" -> 2 [] n = "S3" -> 3

-----------------------------------------------------------------------------
(* Claims *)

\* C1: with the store unchanged, the pages 1..totalPages of getCostRecords,
\* concatenated, hold every record the filter selects exactly once, dates
\* descending, also when several selected records share a date.
C1_PagesPartition ==
    pager.state = "done" =>
        /\ Len(pager.rows) = Cardinality(Wanted(pager.query))
        /\ {pager.rows[k] : k \in DOMAIN pager.rows} = Wanted(pager.query)
        /\ \A k \in 1..(Len(pager.rows) - 1) :
              store[pager.rows[k]].date >= store[pager.rows[k + 1]].date

\* C2: for page >= 1 and limit >= 1, getCostRecords answers with success and
\* exactly max(0, min(limit, N - (page-1)*limit)) rows, N the number of
\* records the filter selects; past the last page the list is empty and the
\* pagination still reports N.
C2_RowCount ==
    (Answered("getCostRecords") /\ dbUp /\ WellPaged(req.query)) =>
        LET N == Cardinality(Wanted(req.query))
            page == ReqPage(req.query).v
            limit == ReqLimit(req.query).v
        IN  /\ resp.success /\ resp.status = 200
            /\ Len(resp.data) = Max(0, Min(limit, N - (page - 1) * limit))
            /\ Len(resp.data) <= limit
            /\ Len(resp.pagination) = 1
            /\ resp.pagination[1].totalRecords = N
            /\ resp.pagination[1].totalPages = Num((N + limit - 1) \div limit)

\* C2 witness: page 2 of 3 records at 2 per page holds exactly 1 row.
C2_Witness ==
    /\ Answered("getCostRecords") /\ resp.success
    /\ req.query.page = Some(<<"2">>) /\ req.query.limit = Some(<<"2">>)
    /\ Cardinality(Wanted(req.query)) = 3
    /\ Len(resp.data) = 1

\* C3: for page >= 1 and limit >= 1 (1 and 50 when omitted) getCostRecords
\* queries the store at offset (page-1)*limit and reports currentPage = page,
\* totalPages = ceil(N/limit) (0 when N = 0), totalRecords = N and
\* recordsPerPage = limit, N not depending on page or limit.
C3_Pagination ==
    (Answered("getCostRecords") /\ dbUp /\ WellPaged(req.query)) =>
        LET N == Cardinality(Wanted(req.query))
            page == ReqPage(req.query).v
            limit == ReqLimit(req.query).v
        IN  /\ dbCall.offset = Num((page - 1) * limit)
            /\ dbCall.limit = Num(limit)
            /\ resp.pagination =
                 <<[currentPage |-> Num(page),
                    totalPages |-> Num(IF N % limit = 0 THEN N \div limit
                                       ELSE N \div limit + 1),
                    totalRecords |-> N,
                    recordsPerPage |-> Num(limit)]>>
            /\ N = 0 => resp.pagination[1].totalPages = Num(0)

\* C3 witness: 3 records at limit 2 make 2 pages (the count is rounded up).
C3_Witness ==
    /\ Answered("getCostRecords") /\ resp.success
    /\ req.query.limit = Some(<<"2">>) /\ req.query.page = Absent
    /\ resp.pagination[1].totalRecords = 3
    /\ resp.pagination[1].totalPages = Num(2)
    /\ resp.pagination[1].currentPage = Num(1)

\* C4: getCostRecords selects by date as follows: both bounds, startDate <=
\* date <= endDate; only startDate, date >= startDate; only endDate, date <=
\* endDate; neither, every date. (Read on unpaged requests, whose single page
\* holds every selected record.)
C4_DateConstraint ==
    (Answered("getCostRecords") /\ dbUp /\ Unpaged(req.query)) =>
        \A i \in DOMAIN store :
            DimsWanted(req.query, store[i]) =>
                (i \in RowIds <=>
                    CASE req.query.startDate # Absent /\ req.query.endDate # Absent ->
                           req.query.startDate[1] <= store[i].date
                           /\ store[i].date <= req.query.endDate[1]
                      [] req.query.startDate # Absent /\ req.query.endDate = Absent ->
                           store[i].date >= req.query.startDate[1]
                      [] req.query.startDate = Absent /\ req.query.endDate # Absent ->
                           store[i].date <= req.query.endDate[1]
                      [] OTHER -> TRUE)

\* C4 witness: startDate = endDate = day 2 over records dated 1, 2 and 3
\* returns the record of day 2 alone.
C4_Witness ==
    /\ Answered("getCostRecords") /\ resp.success
    /\ req.query.startDate = Some(2) /\ req.query.endDate = Some(2)
    /\ {store[i].date : i \in Wanted([req.query EXCEPT !.startDate = Absent,
                                                         !.endDate = Absent])} = {1, 2, 3}
    /\ {resp.data[k].date : k \in DOMAIN resp.data} = {2}

\* C5: getCostSummaryByService and getCostTrends select the same records as
\* getCostRecords does for the same filter parameters, also when only one of
\* startDate and endDate is given.
C5_SameFilter ==
    (req.endpoint \in {"getCostSummaryByService", "getCostTrends"} /\ resp.success) =>
        /\ MatchingIds(dbCall.where) = MatchingIds(ListWhere(req.query))
        /\ MatchingIds(dbCall.where) = Wanted(req.query)

\* C6: each of serviceName, region and accountId constrains a record when
\* present: one value by equality, a list by membership; a record is
\* returned iff it meets the date constraint and every constraint present,
\* and no record is returned twice.
C6_DimConstraints ==
    (Answered("getCostRecords") /\ dbUp /\ Unpaged(req.query)) =>
        /\ \A i \in DOMAIN store :
              DateWanted(req.query, store[i].date) =>
                  (i \in RowIds <=>
                      \A f \in {"serviceName", "region", "accountId"} :
                          \/ req.query[f].kind = "absent"
                          \/ req.query[f].kind = "one" /\ store[i][f] = req.query[f].vals[1]
                          \/ req.query[f].kind = "many"
                             /\ store[i][f] \in {req.query[f].vals[k] :
                                                   k \in DOMAIN req.query[f].vals})
        /\ RowIds = Wanted(req.query)
        /\ Len(resp.data) = Cardinality(RowIds)
        /\ \A k \in DOMAIN resp.data : resp.data[k] = Row(resp.data[k].id)

\* C6 witness: a list of two regions returns the records of both and leaves
\* out a record of a third region.
C6_Witness ==
    /\ Answered("getCostRecords") /\ resp.success
    /\ req.query.region = Many(<<"us-west-2", "us-east-1">>)
    /\ {resp.data[k].region : k \in DOMAIN resp.data} = {"us-west-2", "us-east-1"}
    /\ \E i \in DOMAIN store : store[i].region = "eu-west-1"

\* C7: the totalCost of the rows of getCostSummaryByService add up to the
\* sum of costAmount over the records the filter selects, to the cent.
C7_TotalCostConserved ==
    (Answered("getCostSummaryByService") /\ resp.success) =>
        /\ \A k \in DOMAIN resp.data : IsNum(resp.data[k].totalCost)
        /\ SeqSum([k \in DOMAIN resp.data |-> resp.data[k].totalCost.v])
             = SumCost(Wanted(req.query))

\* C8: the recordCount of the rows of getCostSummaryByService add up to the
\* number of records the filter selects, which is the totalRecords that
\* getCostRecords reports for the same filter parameters.
C8_RecordCountConserved ==
    (Answered("getCostSummaryByService") /\ resp.success) =>
        /\ \A k \in DOMAIN resp.data : IsNum(resp.data[k].recordCount)
        /\ SeqSum([k \in DOMAIN resp.data |-> resp.data[k].recordCount.v])
             = Cardinality(MatchingIds(ListWhere(req.query)))

\* C9: getCostSummaryByService returns one row for each serviceName that has
\* a record the filter selects, by totalCost descending, rows of equal
\* totalCost by serviceName ascending. (Read on the requests that give both
\* date bounds or neither, on which the summary selects what the filter asks.)
C9_SummaryRowsOrdered ==
    (/\ Answered("getCostSummaryByService") /\ resp.success
     /\ (req.query.startDate = Absent <=> req.query.endDate = Absent)) =>
        /\ {resp.data[k].serviceName : k \in DOMAIN resp.data}
             = {store[i].serviceName : i \in Wanted(req.query)}
        /\ \A j, k \in DOMAIN resp.data :
              j < k =>
                /\ resp.data[j].serviceName # resp.data[k].serviceName
                /\ resp.data[j].totalCost.v >= resp.data[k].totalCost.v
                /\ resp.data[j].totalCost.v = resp.data[k].totalCost.v =>
                      NameRank(resp.data[j].serviceName) < NameRank(resp.data[k].serviceName)

\* C10: getCostTrends returns no two rows of one date, rows by date
\* ascending, a row only for a date on which the filter selects a record,
\* and as dailyCost the sum of costAmount of the selected records of that date.
C10_TrendRows ==
    (Answered("getCostTrends") /\ resp.success) =>
        /\ \A j, k \in DOMAIN resp.data : j < k => resp.data[j].date < resp.data[k].date
        /\ \A k \in DOMAIN resp.data :
              \E i \in Wanted(req.query) :
                  /\ resp.data[k].date = NewDate(store[i].date)
                  /\ resp.data[k].dailyCost =
                       Num(SumCost({j \in Wanted(req.query) : store[j].date = store[i].date}))

\* C11: after any creates, updates and deletes, getAvailableFilters answers,
\* whatever query parameters it is sent, with three lists without repeated
\* values that hold exactly the serviceName, region and accountId values of
\* the records in the store at the time of the call.
C11_FilterCatalog ==
    (Answered("getAvailableFilters") /\ resp.success) =>
        LET catalog == resp.data[1]
            Values(list) == {list[k] : k \in DOMAIN list}
        IN  /\ Values(catalog.services) = {store[i].serviceName : i \in DOMAIN store}
            /\ Values(catalog.regions) = {store[i].region : i \in DOMAIN store}
            /\ Values(catalog.accounts) = {store[i].accountId : i \in DOMAIN store}
            /\ Len(catalog.services) = Cardinality(Values(catalog.services))
            /\ Len(catalog.regions) = Cardinality(Values(catalog.regions))
            /\ Len(catalog.accounts) = Cardinality(Values(catalog.accounts))

\* C11 witness: sent with serviceName=EC2, after a record was deleted and
\* with two records of service S3 left, the catalog lists S3 once and no EC2.
C11_Witness ==
    /\ Answered("getAvailableFilters") /\ resp.success
    /\ req.query.serviceName = One("EC2")
    /\ Cardinality(DOMAIN store) = 2
    /\ nextId = 4
    /\ resp.data[1].services = <<"S3">>
    /\ Len(resp.data[1].regions) = 2

\* C12: getAvailableFilters issues three store queries; when any of them
\* fails, in whatever order the three complete, the request is answered with
\* a failure and never with a success that holds part of the catalog; a
\* success is sent only after all three have succeeded.
C12_AllOrNothing ==
    req.endpoint = "getAvailableFilters" =>
        /\ flight.rejected # {} =>
              resp # NoResp /\ ~resp.success /\ resp.status = 500 /\ resp.data = <<>>
        /\ resp.success =>
              /\ flight.fulfilled = FilterColumns
              /\ flight.pending = {} /\ flight.rejected = {}
              /\ resp.data = <<[services |-> flight.serviceName,
                                regions  |-> flight.region,
                                accounts |-> flight.accountId]>>
        /\ (flight.rejected = {} /\ flight.pending # {}) => resp = NoResp

\* C12 witness: two of the three queries have succeeded on a store that
\* holds records, the third has failed, and the answer is the failure.
C12_Witness ==
    /\ req.endpoint = "getAvailableFilters"
    /\ Cardinality(flight.fulfilled) = 2
    /\ Cardinality(flight.rejected) = 1
    /\ store # <<>>
    /\ resp.status = 500 /\ ~resp.success

\* C13: the formatter turns a sum that is absent or not parseable as a
\* number into 0.0 and a count that is absent or not parseable into 0, so
\* that totalCost, dailyCost and recordCount are never NaN, and an
\* unparseable aggregate does not fail the request.
C13_FormatDefaults ==
    (aggRow # NoRaw /\ resp # NoResp) =>
        LET SumWanted(text) ==
                IF text = <<>> \/ ~IsNum(ParseFloat(text)) THEN Num(0) ELSE ParseFloat(text)
            CountWanted(text) ==
                IF text = <<>> \/ ~IsNum(ParseInt(text)) THEN Num(0) ELSE ParseInt(text)
        IN  /\ resp.success
            /\ aggRow.mode = "summary" =>
                  /\ resp.data[1].totalCost = SumWanted(aggRow.row.totalCost)
                  /\ resp.data[1].recordCount = CountWanted(aggRow.row.recordCount)
            /\ aggRow.mode = "trend" =>
                  resp.data[1].dailyCost = SumWanted(aggRow.row.dailyCost)

\* C14: updateCostRecord and deleteCostRecord on an id the store does not
\* hold answer 404 'Cost record not found', which is not the answer to a
\* store failure (500), send no success, and leave the store as it was.
C14_UnknownIdNotFound ==
    [][(/\ resp = NoResp /\ resp' # NoResp
        /\ req'.endpoint \in {"updateCostRecord", "deleteCostRecord"}
        /\ \A i \in DOMAIN store : IntText(i) # req'.id) =>
          /\ store' = store
          /\ ~resp'.success
          /\ IF dbUp
             THEN resp'.status = 404 /\ resp'.message = "Cost record not found"
             ELSE resp'.status = 500 /\ resp'.message # "Cost record not found"]_vars

\* C15: createCostRecord with a payload that lacks a required field is
\* answered as a validation failure, status 400 with the missing fields
\* named, not as a store failure.
C15_MissingFieldRejected ==
    (Answered("createCostRecord") /\ ~(RequiredFields \subseteq DOMAIN req.body)) =>
        /\ ~resp.success
        /\ resp.status = 400
        /\ {e.field : e \in resp.errors} = RequiredFields \ DOMAIN req.body

\* C16: getCostRecords with a page or limit that is not a positive number
\* is answered as a validation failure before any store query is issued: no
\* query with a negative or NaN offset or limit, no store failure, no
\* success with NaN or Infinity in the pagination.
C16_BadPagingRejected ==
    (Answered("getCostRecords") /\ ~WellPaged(req.query)) =>
        /\ dbCall = NoCall
        /\ ~resp.success
        /\ resp.status = 400

\* C17: on every cost endpoint, whatever error the store raises, the answer
\* is fixed by the endpoint alone: status 500, success false, the endpoint's
\* own message, and nothing of the store's error.
C17_OpaqueStoreFailure ==
    (resp # NoResp /\ dbCall.error # NoError) =>
        /\ resp = Failure(500, FixedMessage(req.endpoint), {})
        /\ resp.message # dbCall.error.message

\* C17 witness: a list request that hit an acquire timeout has been answered.
C17_Witness ==
    /\ Answered("getCostRecords")
    /\ dbCall.error = AcquireTimeout
    /\ resp.status = 500

\* C18: every cost endpoint requires authentication: a request without a
\* valid access token does not reach the cost controller, issues no store
\* call, and is answered with an authentication error.
C18_CostRoutesAuthenticated ==
    (req.endpoint \in CostEndpoints /\ (authz = NoHeader \/ authz = Bearer(Garbage))) =>
        /\ dbCall = NoCall
        /\ flight = NoFlight
        /\ resp # NoResp => resp.status = 401

\* C19: after login and then logout, a refresh with the refresh token that
\* the login issued is rejected and issues no tokens.
C19_LogoutInvalidatesRefreshToken ==
    (/\ req.endpoint = "refresh" /\ resp # NoResp
     /\ session.phase = "loggedOut"
     /\ req.body.refreshToken = Some(session.refreshToken)) =>
        ~resp.success /\ resp.data = <<>>

\* C20: the same query (endpoint, filter, page, limit) sent twice while the
\* store is not modified is answered twice the same: the same rows in the
\* same order and the same total, for list, summary and trends, also when
\* rows tie on the ordering key.
C20_SameQuerySameAnswer ==
    (resp # NoResp /\ last.req = req) => last.resp = resp

-----------------------------------------------------------------------------
(* The aggregation itself, read against the records each handler selects with
   its own whereClause: nothing is lost or counted twice by GROUP BY, the text
   round trip of SUM and COUNT, or the formatting. *)

SummaryAggregatesItsSelection ==
    (Answered("getCostSummaryByService") /\ resp.success) =>
        LET ids == MatchingIds(SummaryWhere(req.query))
        IN  /\ SeqSum([k \in DOMAIN resp.data |-> resp.data[k].totalCost.v]) = SumCost(ids)
            /\ SeqSum([k \in DOMAIN resp.data |-> resp.data[k].recordCount.v])
                 = Cardinality(ids)
            /\ {resp.data[k].serviceName : k \in DOMAIN resp.data}
                 = {store[i].serviceName : i \in ids}
            /\ \A j, k \in DOMAIN resp.data :
                  j < k => resp.data[j].totalCost.v >= resp.data[k].totalCost.v

TrendsAggregateTheirSelection ==
    (Answered("getCostTrends") /\ resp.success) =>
        LET ids == MatchingIds(TrendsWhere(req.query))
        IN  /\ \A j, k \in DOMAIN resp.data : j < k => resp.data[j].date < resp.data[k].date
            /\ {resp.data[k].date : k \in DOMAIN resp.data}
                 = {NewDate(store[i].date) : i \in ids}
            /\ \A k \in DOMAIN resp.data :
                  \E i \in ids :
                      /\ resp.data[k].date = NewDate(store[i].date)
                      /\ resp.data[k].dailyCost =
                           Num(SumCost({j \in ids : store[j].date = store[i].date}))

\* With both date bounds or neither, the three handlers select the same records.
SameSelectionWhenBothOrNeither ==
    (req.endpoint \in {"getCostSummaryByService", "getCostTrends"} /\ resp.success
     /\ (req.query.startDate = Absent <=> req.query.endDate = Absent)) =>
        MatchingIds(dbCall.where) = Wanted(req.query)

\* An id that is a number and that the store does not hold is answered 404
\* by update and delete, a store that is down 500, and the store stays as it
\* was (SpecStore).
NumericUnknownIdNotFound ==
    [][(/\ resp = NoResp /\ resp' # NoResp
        /\ req'.endpoint \in {"updateCostRecord", "deleteCostRecord"}
        /\ IsNum(PgInteger(req'.id))
        /\ \A i \in DOMAIN store : IntText(i) # req'.id) =>
          /\ store' = store
          /\ ~resp'.success
          /\ IF dbUp
             THEN resp'.status = 404 /\ resp'.message = "Cost record not found"
             ELSE resp'.status = 500 /\ resp'.message # "Cost record not found"]_vars

\* An aggregate that is absent or a number is formatted as the specification
\* asks (SpecFormat).
ParseableAggregatesFormatted ==
    (aggRow # NoRaw /\ resp # NoResp) =>
        /\ resp.success
        /\ aggRow.mode = "summary" =>
              /\ (aggRow.row.totalCost = <<>> \/ IsNum(ParseFloat(aggRow.row.totalCost)))
                    => IsNum(resp.data[1].totalCost)
              /\ aggRow.row.totalCost = <<>> => resp.data[1].totalCost = Num(0)
              /\ aggRow.row.recordCount = <<>> => resp.data[1].recordCount = Num(0)
        /\ aggRow.mode = "trend" =>
              (aggRow.row.dailyCost = <<>> => resp.data[1].dailyCost = Num(0))

\* A repeated trends query is answered the same, and so is any repeated
\* query on a store without two records of one date (SpecRepeat).
RepeatAgreesWithoutTies ==
    (resp # NoResp /\ last.req = req
     /\ (req.endpoint = "getCostTrends" \/ ~SameDateTwice(DOMAIN store))) =>
        last.resp = resp

\* Without two selected records of one date, the pages partition the selection.
PagesPartitionWithoutDateTies ==
    (pager.state = "done" /\ ~SameDateTwice(Wanted(pager.query))) =>
        /\ Len(pager.rows) = Cardinality(Wanted(pager.query))
        /\ {pager.rows[k] : k \in DOMAIN pager.rows} = Wanted(pager.query)
        /\ \A k \in 1..(Len(pager.rows) - 1) :
              store[pager.rows[k]].date >= store[pager.rows[k + 1]].date

-----------------------------------------------------------------------------
(* Writes with arbitrary payloads *)

\* C21: after any sequence of creates and updates, every record in the store
\* has costAmount >= 0 (a write with a negative amount is rejected).
C21_NoNegativeCost == \A i \in DOMAIN store : store[i].costAmount >= 0

\* C22: ids are unique and are the ones the store assigned: every id in the
\* store was drawn from the table's sequence, the record a create answers
\* with carries the id the sequence gave, and an update answers with the id
\* of its path and leaves the set of ids alone.
C22_IdsAssignedByStore ==
    /\ \A i \in DOMAIN store : i < nextId
    /\ (Answered("createCostRecord") /\ resp.success) =>
          (resp.data[1].id = nextId - 1 /\ resp.data[1].id \in DOMAIN store)
    /\ (Answered("updateCostRecord") /\ resp.success) =>
          (Num(resp.data[1].id) = PgInteger(req.id) /\ resp.data[1].id \in DOMAIN store)

\* An update never changes an id: the ids in the store are the same before
\* and after it, whatever id its payload carries.
UpdateKeepsIds ==
    [][req'.endpoint = "updateCostRecord" /\ resp = NoResp => DOMAIN store' = DOMAIN store]_vars

-----------------------------------------------------------------------------
(* Zero rows *)

QueryEndpoints == {"getCostRecords", "getCostSummaryByService", "getCostTrends"}

\* C23: when no record matches the filter of a well-formed request (the empty
\* store included), list, summary and trends answer with success and an empty
\* data list, the list with totalRecords = 0 and totalPages = 0; none reports
\* NotFound or another failure.
C23_NoMatchIsEmptySuccess ==
    (req.endpoint \in QueryEndpoints /\ resp # NoResp
     /\ WellPaged(req.query) /\ Wanted(req.query) = {}) =>
        /\ resp.success /\ resp.status = 200
        /\ resp.data = <<>>
        /\ req.endpoint = "getCostRecords" =>
             /\ resp.pagination[1].totalRecords = 0
             /\ resp.pagination[1].totalPages = Num(0)

\* When the WHERE clause the handler built selects no row, the answer is a
\* success with an empty data list, and zero totals in list mode.
EmptySelectionIsSuccess ==
    (req.endpoint \in QueryEndpoints /\ resp # NoResp
     /\ WellPaged(req.query) /\ MatchingIds(dbCall.where) = {}) =>
        /\ resp.success /\ resp.status = 200
        /\ resp.data = <<>>
        /\ req.endpoint = "getCostRecords" =>
             /\ resp.pagination[1].totalRecords = 0
             /\ resp.pagination[1].totalPages = Num(0)

\* the case of EmptySelectionIsSuccess occurs on a store that holds records
EmptySelectionSeen ==
    /\ req.endpoint \in QueryEndpoints /\ resp.success
    /\ store # <<>> /\ MatchingIds(dbCall.where) = {}

-----------------------------------------------------------------------------
(* The authentication routes *)

\* the routes behind authenticate
Guarded == {"logout", "getProfile"}

\* the request in req was handled and the handler or middleware threw an
\* application error of that status code
Threw(statusCode) == thrown.name = "AppError" /\ thrown.statusCode = statusCode

\* C24: authenticate lets a request through to the protected handler (which
\* then answers, the profile with req.user) exactly when its Authorization
\* header is 'Bearer <token>', the token carries the signature of the access
\* secret, has not expired, has type 'access', and names a user the table
\* holds at that moment; in every other case the handler is not reached and
\* an AuthenticationError (401) is thrown.
C24_AuthenticateGuards ==
    [][(resp = NoResp /\ req'.endpoint \in Guarded) =>
          IF /\ authz'.scheme = "Bearer"
             /\ authz'.token.secret = "JWT_SECRET"
             /\ clock.now < authz'.token.exp
             /\ authz'.token.type = "access"
             /\ dbUp
             /\ \E u \in users : u.id = authz'.token.userId
          THEN /\ resp'.success
               /\ thrown' = NoError
               /\ req'.endpoint = "getProfile" =>
                    \E u \in users : /\ u.id = authz'.token.userId
                                     /\ resp'.data[1].user = [id |-> u.id, email |-> u.email]
          ELSE /\ ~resp'.success
               /\ thrown'.name = "AppError"
               /\ thrown'.statusCode = 401
               /\ thrown'.message = "Invalid or expired token"]_vars

\* the client's own access token, expired, is turned away at a guarded route
C24_Witness ==
    /\ req.endpoint \in Guarded
    /\ session.phase = "in" /\ authz = Bearer(session.accessToken)
    /\ clock.now >= authz.token.exp
    /\ FindUserByPk(authz.token.userId) # {}
    /\ Threw(401)

\* the other cases of C24 occur: a request let through, and a valid access
\* token of a user the table holds no more turned away
GuardedReached == req.endpoint = "getProfile" /\ resp.success

RemovedUserTurnedAway ==
    /\ req.endpoint \in Guarded
    /\ authz.token.userId = Removed.id /\ authz.token.type = "access"
    /\ Threw(401)

\* C25: register with a missing email or password throws ValidationError
\* (400); with an email a user already has, ConflictError (409); in both
\* cases the users are unchanged. A user is created only when both fields
\* are present and no user has the email, and then it is that one user.
C25_RegisterRejects ==
    [][(resp = NoResp /\ req'.endpoint = "register") =>
          LET email    == req'.body.email
              password == req'.body.password
          IN  IF email = "" \/ password = ""
              THEN /\ thrown' = ValidationError("Email and password are required")
                   /\ thrown'.statusCode = 400
                   /\ ~resp'.success
                   /\ users' = users
              ELSE IF \E u \in users : u.email = email
              THEN /\ dbUp => /\ thrown'.name = "AppError"
                              /\ thrown'.statusCode = 409
                   /\ ~resp'.success
                   /\ users' = users
              ELSE \/ /\ ~dbUp
                      /\ ~resp'.success
                      /\ users' = users
                   \/ /\ dbUp
                      /\ resp'.success /\ resp'.status = 201
                      /\ \E u \in users' : /\ u.email = email
                                           /\ u \notin users
                                           /\ users' = users \cup {u}]_vars

\* a second registration with the email of a user is turned away
C25_Witness ==
    /\ req.endpoint = "register"
    /\ \E u \in users : u.email = req.body.email
    /\ Threw(409)
    /\ Cardinality(users) = 1

\* the other cases of C25 occur: a missing field, and a user created
RegisterMissingField == req.endpoint = "register" /\ req.body.password = "" /\ Threw(400)

RegisterCreated == req.endpoint = "register" /\ resp.success /\ users # {}

\* tokens of either type under either signature, expired and not: where both
\* secrets are set to one value, a token signed as one type verifies under
\* the other secret, and only its type tells the two apart
TokenSamples ==
    {[userId |-> 1, email |-> "ann@example.com", type |-> ty, secret |-> sc,
      iat |-> 0, exp |-> ex] :
        ty \in {"access", "refresh"}, sc \in {"JWT_SECRET", "JWT_REFRESH_SECRET"},
        ex \in {0, (MaxTicks + 2) * RefreshLife}}

\* C26: access and refresh tokens are not interchangeable. verifyAccessToken
\* rejects every refresh-type token and verifyRefreshToken every access-type
\* token; a refresh token never opens a guarded route; the refresh endpoint
\* throws 400 without a token, 401 for a token that is no valid refresh
\* token, 404 when its user is unknown, and issues new tokens, for that
\* user, only otherwise.
C26_TokensNotInterchangeable ==
    [][/\ \A t \in TokenSamples :
            /\ t.type = "refresh" => ~VerifyAccessToken(t)
            /\ t.type = "access" => ~VerifyRefreshToken(t)
       /\ (resp = NoResp /\ req'.endpoint \in Guarded /\ authz'.token.type = "refresh") =>
            /\ ~resp'.success
            /\ thrown'.name = "AppError" /\ thrown'.statusCode = 401
       /\ (resp = NoResp /\ req'.endpoint = "refresh") =>
            LET body == req'.body.refreshToken
            IN  IF body = Absent
                THEN /\ ~resp'.success
                     /\ thrown' = ValidationError("Refresh token is required")
                     /\ thrown'.statusCode = 400
                ELSE IF ~(/\ body[1].secret = "JWT_REFRESH_SECRET"
                          /\ body[1].type = "refresh"
                          /\ clock.now < body[1].exp) \/ ~dbUp
                THEN /\ ~resp'.success
                     /\ thrown'.name = "AppError" /\ thrown'.statusCode = 401
                ELSE IF \A u \in users : u.id # body[1].userId
                THEN /\ ~resp'.success
                     /\ thrown'.name = "AppError" /\ thrown'.statusCode = 404
                ELSE /\ resp'.success
                     /\ thrown' = NoError
                     /\ resp'.data[1].tokens.accessToken.type = "access"
                     /\ resp'.data[1].tokens.refreshToken.type = "refresh"
                     /\ resp'.data[1].tokens.accessToken.userId = body[1].userId
                     /\ resp'.data[1].tokens.refreshToken.userId = body[1].userId]_vars

\* the client's access token, not expired, offered to the refresh endpoint
\* is turned away
C26_Witness ==
    /\ req.endpoint = "refresh"
    /\ session.phase = "in" /\ req.body.refreshToken = Some(session.accessToken)
    /\ clock.now < session.accessToken.exp
    /\ Threw(401)

\* the other cases of C26 occur: the refresh token at a guarded route, a
\* refresh that succeeds, and the refresh token of a user the table holds
\* no more
RefreshTokenAtGuardedRoute ==
    /\ req.endpoint \in Guarded
    /\ session.phase = "in" /\ authz = Bearer(session.refreshToken)
    /\ Threw(401)

Refreshed == req.endpoint = "refresh" /\ resp.success

RefreshOfRemovedUser ==
    /\ req.endpoint = "refresh" /\ req.body.refreshToken # Absent
    /\ req.body.refreshToken[1].userId = Removed.id
    /\ Threw(404)

-----------------------------------------------------------------------------
(* The error handler *)

\* C27: the error handler answers a unique constraint error of the ORM with
\* 409 'Resource already exists' and a plain validation error of the ORM
\* with 400 'Validation error occurred'; every error response has
\* success = false.
C27_UniqueConstraintIsConflict ==
    resp # NoResp =>
        /\ ~resp.success
        /\ thrown.name = "SequelizeUniqueConstraintError" =>
             resp.status = 409 /\ resp.message = "Resource already exists"
        /\ thrown.name = "SequelizeValidationError" =>
             resp.status = 400 /\ resp.message = "Validation error occurred"

\* What the error handler does answer: an application error with its own
\* status code and message, a validation error of the ORM, unique constraint
\* errors included, with 400 and its field errors, anything else with 500
\* and a fixed message; success is false throughout.
ErrorHandlerAnswers ==
    resp # NoResp =>
        /\ ~resp.success
        /\ thrown.name = "AppError" =>
             resp.status = thrown.statusCode /\ resp.message = thrown.message
        /\ thrown.name \in {"SequelizeValidationError", "SequelizeUniqueConstraintError"} =>
             /\ resp.status = 400 /\ resp.message = "Validation error occurred"
             /\ resp.errors = thrown.errors
        /\ thrown.name \notin {"AppError", "SequelizeValidationError",
                               "SequelizeUniqueConstraintError"} =>
             /\ resp.status = 500
             /\ resp.message = "An unexpected error occurred. Please try again later."

-----------------------------------------------------------------------------
(* Concurrent requests on one record *)

\* C28: under every interleaving of concurrent requests on one record id, of
\* two delete requests at most one is answered with success (the other with
\* NotFound), and an update is answered with success only if, when its
\* update call completes, the record is in the store with the updated values.
C28_ConcurrentWritesOnOneRecord ==
    [][/\ \A t, u \in Slots :
            (/\ t # u
             /\ tasks'[t].pc = "done" /\ tasks'[t].op = "deleteCostRecord"
             /\ tasks'[u].pc = "done" /\ tasks'[u].op = "deleteCostRecord"
             /\ tasks'[t].id = tasks'[u].id
             /\ tasks'[t].resp.success) =>
                tasks'[u].resp.status = 404
       /\ \A t \in Slots :
            (/\ tasks[t].pc = "found" /\ tasks'[t].pc = "done"
             /\ tasks[t].op = "updateCostRecord"
             /\ tasks'[t].resp.success) =>
                \E i \in DOMAIN store' :
                    /\ Num(i) = PgInteger(tasks[t].id)
                    /\ \A f \in DOMAIN tasks[t].body : store'[i][f] = tasks[t].body[f]]_vars

\* Of two requests on one id that do not overlap, a delete after a delete is
\* answered NotFound.
SecondDeleteAfterFirstNotFound ==
    [][\A t, u \in Slots :
          (/\ t # u
           /\ tasks[t].pc = "done" /\ tasks[t].op = "deleteCostRecord"
           /\ tasks[t].resp.success
           /\ tasks[u].pc = "idle" /\ tasks'[u].pc # "idle"
           /\ tasks'[u].id = tasks[t].id) =>
              tasks'[u].pc = "done" /\ tasks'[u].resp.status = 404]_vars

\* the two failures of C28 both occur: two deletes of one id answered with
\* success, and an update answered with success for a record that is gone
TwoDeletesSucceed ==
    \E t, u \in Slots :
        /\ t # u /\ tasks[t].id = tasks[u].id
        /\ tasks[t].op = "deleteCostRecord" /\ tasks[t].resp.success
        /\ tasks[u].op = "deleteCostRecord" /\ tasks[u].resp.success

UpdateOfDeletedSucceeds ==
    \E t \in Slots :
        /\ tasks[t].op = "updateCostRecord" /\ tasks[t].resp.success
        /\ FindByPk(tasks[t].id) = {}

-----------------------------------------------------------------------------
(* Responses of the authentication routes *)

AuthEndpoints == {"register", "login", "refresh", "getProfile", "logout"}

\* C29: every request to an authentication route is eventually answered, and
\* answered once: what the handler or authenticate throws reaches the error
\* handler, which sends one response with the error's status code; a response
\* once made is not replaced by another.
C29_AuthRequestsAnswered ==
    /\ (req.endpoint \in AuthEndpoints) ~>
          /\ req.endpoint \in AuthEndpoints
          /\ resp.status # 0
          /\ thrown.name = "AppError" => resp.status = thrown.statusCode
    /\ [][(req.endpoint \in AuthEndpoints /\ resp.status # 0) => resp' \in {resp, NoResp}]_vars

\* A request to an authentication route that the handler answers itself, or
\* whose error is passed on to the error handler, has one response, with the
\* status code of the error if one was thrown.
AnsweredAuthRequests ==
    (req.endpoint \in AuthEndpoints /\ resp.status # 0) =>
        /\ thrown = NoError => resp.success
        /\ thrown.name = "AppError" =>
             resp.status = thrown.statusCode /\ resp.message = thrown.message
        /\ thrown \in Outages => resp.status = 500

\* the failure of C29: an error thrown and the request left without a response
Unanswered == req.endpoint \in AuthEndpoints /\ thrown # NoError /\ resp = Hung

\* C30: login does not tell whether an email is registered. With both fields
\* given and the database up, a login with an email no user has and a login
\* with a user's email and another password end the same way: the same
\* AuthenticationError (401, 'Invalid email or password') is thrown and the
\* same responses are possible; tokens are issued, for that user, only when
\* a user has the email and the password is theirs.
C30_LoginDoesNotRevealEmails ==
    [][(resp = NoResp /\ req'.endpoint = "login") =>
          LET email    == req'.body.email
              password == req'.body.password
              owners   == {u \in users : u.email = email /\ u.password = Hash(password)}
          IN  /\ resp'.success =>
                   /\ email # "" /\ password # "" /\ owners # {}
                   /\ \E u \in owners :
                        /\ resp'.data[1].user = [id |-> u.id, email |-> u.email]
                        /\ resp'.data[1].tokens.accessToken.userId = u.id
                        /\ resp'.data[1].tokens.refreshToken.userId = u.id
              /\ (email # "" /\ password # "" /\ dbUp /\ owners = {}) =>
                   /\ thrown' = AuthenticationError("Invalid email or password")
                   /\ thrown'.statusCode = 401
                   /\ resp' \in {Failure(401, "Invalid email or password", {}), Hung}
              /\ (email # "" /\ password # "" /\ dbUp /\ owners # {}) => resp'.success]_vars

\* a login with an email no user has, while another email is registered, is
\* turned away
C30_Witness ==
    /\ req.endpoint = "login"
    /\ users # {} /\ \A u \in users : u.email # req.body.email
    /\ req.body.email # "" /\ req.body.password # ""
    /\ Threw(401) /\ thrown.message = "Invalid email or password"

\* the other cases of C30 occur: a user's email with another password, and a
\* login that succeeds
WrongPasswordTurnedAway ==
    /\ req.endpoint = "login"
    /\ \E u \in users : u.email = req.body.email /\ u.password # Hash(req.body.password)
    /\ req.body.password # ""
    /\ Threw(401) /\ thrown.message = "Invalid email or password"

LoggedIn == req.endpoint = "login" /\ resp.success

====
